---- MODULE Spec2Model ----
(***************************************************************************)
(* A state-machine model of the tycho-simulation core:                     *)
(*   - the cached EVM state DB (TychoDB over AccountStorage), and          *)
(*   - the generic VM pool adapter state (VMPoolState).                    *)
(*   - GetAmountOutResult of the protocol models and the quickstart loop.  *)
(* Nine specifications are defined over the same variables:                *)
(*   Spec        the VM pool machine (new, ensure_capability,              *)
(*               get_amount_out, delta_transition)                         *)
(*   SpecPrices  the pricing machine (new, set_spot_prices,                *)
(*               get_amount_out)                                           *)
(*   SpecDB      the state DB machine (init_account, update_state, reads)  *)
(*   SpecLock    the state DB shared by concurrent tasks under its lock    *)
(*   SpecModels  the decoding of capabilities (Capability::from_u256)      *)
(*   SpecNew     several pools constructed over the one DB, and quoted     *)
(*   SpecOwner   one pool with or without a balance owner, priced, quoted  *)
(*   SpecAggregate   the fold of hop results (GetAmountOutResult)          *)
(*   SpecQuickstart  the quickstart's loop over block updates              *)
(***************************************************************************)
EXTENDS Integers, Sequences, FiniteSets, TLC

VARIABLES
    accounts,   \* shared state DB: account_storage (address -> account record)
    dbBlock,    \* shared state DB: the current block (Option<Block>)
    pools,      \* the VM pool states that exist (constructed, or returned by a quote)
    last,       \* the last operation performed and what it returned
    history,    \* what was done to the state DB so far (see NewHistory)
    dbLock      \* shared state DB: who holds its lock (see NoLock)

vars == <<accounts, dbBlock, pools, last, history, dbLock>>

(***************************************************************************)
(* Bounds of the model                                                     *)
(***************************************************************************)
\* number of pool states kept (constructed ones and returned new states)
MaxStates == 2
\* largest sell amount a caller asks a quote for
MaxAmount == 2
\* number of pool states that hold prices stored by set_spot_prices
MaxPriced == 2
\* width in bits of the machine word the model uses for U256
WordBits == 12

(***************************************************************************)
(* Option / Result / HashMap encodings                                     *)
(***************************************************************************)
None == [some |-> FALSE]
Some(x) == [some |-> TRUE, v |-> x]
Ok(x) == [ok |-> TRUE, v |-> x]
Err(e) == [ok |-> FALSE, err |-> e]

EmptyMap == [x \in {} |-> 0]
MapPut(m, k, x) == [y \in (DOMAIN m) \cup {k} |-> IF y = k THEN x ELSE m[y]]
\* HashMap::extend: every entry of n is inserted, replacing an entry of m
MapExtend(m, n) == [y \in (DOMAIN m) \cup (DOMAIN n) |-> IF y \in DOMAIN n THEN n[y] ELSE m[y]]
\* the (address, slot, value) entries of a two-level map
Entries(o) == {<<a, s, o[a][s]>> : <<a, s>> \in UNION {{<<b, t>> : t \in DOMAIN o[b]} : b \in DOMAIN o}}
\* the (address, slot) keys of a two-level map
Keys(o) == UNION {{<<b, t>> : t \in DOMAIN o[b]} : b \in DOMAIN o}

(***************************************************************************)
(* Addresses, tokens, capabilities, program constants                      *)
(***************************************************************************)
DAI == "DAI"
BAL == "BAL"
WETH == "WETH"
VAULT == "VAULT"
POOLC == "POOLC"
NULL_ADDRESS == "0x0"
PRECOMPILE_4 == "0x4"
EXTERNAL_ACCOUNT == "EXTERNAL_ACCOUNT"
ADAPTER_ADDRESS == "ADAPTER_ADDRESS"

U256_MAX == 2 ^ WordBits - 1
MAX_BALANCE == U256_MAX \div 2
\* MAX_BALANCE / 100, the max_amount of the first override pass
MaxBalanceFraction == MAX_BALANCE \div 100

Capability ==
    {"SellSide", "BuySide", "PriceFunction", "FeeOnTransfer", "ConstantPrice",
     "TokenBalanceIndependent", "ScaledPrice", "HardLimits", "MarginalPrice"}

\* the capabilities in the order of their wire values, SellSide = 1 first
CapabilityValues ==
    <<"SellSide", "BuySide", "PriceFunction", "FeeOnTransfer", "ConstantPrice",
      "TokenBalanceIndependent", "ScaledPrice", "HardLimits", "MarginalPrice">>

\* Capability::from_u256(value): the match is on the lowest byte of the value
from_u256(value) ==
    LET value_as_u8 == value % 256
    IN  IF value_as_u8 \in DOMAIN CapabilityValues
        THEN Ok(CapabilityValues[value_as_u8])
        ELSE Err(<<"FatalError", "Unexpected Capability value", value>>)

(***************************************************************************)
(* AccountStorage and TychoDB                                              *)
(***************************************************************************)
KECCAK_EMPTY == <<"keccak", "empty">>
keccak256(code) == <<"keccak", code>>

\* revm to_analysed: the same bytes, with the jump table built
to_analysed(code) == [bytes |-> code.bytes, analysed |-> TRUE]
Bytecode_new_raw(bytes) == [bytes |-> bytes, analysed |-> FALSE]

\* an init_account that leaves an entry that exists as it is
AccountStorage_init_account_if_absent(accs, address, info, permanent_storage, mocked) ==
    IF address \in DOMAIN accs THEN accs
    ELSE MapPut(accs, address,
                [info |-> info,
                 permanent_storage |-> permanent_storage,
                 storage |-> EmptyMap,
                 mocked |-> mocked])

\* AccountStorage::init_account: installs the entry, replacing an existing one
AccountStorage_init_account(accs, address, info, permanent_storage, mocked) ==
    MapPut(accs, address,
           [info |-> info,
            permanent_storage |-> permanent_storage,
            storage |-> EmptyMap,
            mocked |-> mocked])

\* an init_account that keeps the transient storage of the entry it replaces
init_account_keeping_storage(accs, address, account, permanent_storage, mocked) ==
    LET installed == AccountStorage_init_account(accs, address, account,
                                                 permanent_storage, mocked)
    IN  IF address \in DOMAIN accs
        THEN [installed EXCEPT ![address].storage = accs[address].storage]
        ELSE installed

\* TychoDB::init_account
init_account(accs, address, account, permanent_storage, mocked) ==
    LET analysed == IF account.code.some
                    THEN [account EXCEPT !.code = Some(to_analysed(account.code.v))]
                    ELSE account
    IN  AccountStorage_init_account(accs, address, analysed, permanent_storage, mocked)

\* AccountStorage::get_storage: transient storage first, permanent second
get_storage(accs, address, index) ==
    IF address \notin DOMAIN accs THEN None
    ELSE LET acc == accs[address]
         IN  IF index \in DOMAIN acc.storage THEN Some(acc.storage[index])
             ELSE IF acc.permanent_storage.some /\ index \in DOMAIN acc.permanent_storage.v
                  THEN Some(acc.permanent_storage.v[index])
                  ELSE None

\* AccountStorage::is_mocked_account
is_mocked_account(accs, address) ==
    IF address \in DOMAIN accs THEN Some(accs[address].mocked) ELSE None

\* AccountStorage::get_account_info
get_account_info(accs, address) ==
    IF address \in DOMAIN accs THEN Some(accs[address].info) ELSE None

\* a storage that takes a stored zero for a slot it does not hold
storage_zero_as_missing(accs, address, index) ==
    LET is_mocked == is_mocked_account(accs, address)
        got == get_storage(accs, address, index)
    IN  IF got.some /\ got.v # 0 THEN Ok(got.v)
        ELSE IF is_mocked = Some(TRUE)
             THEN Err(<<"MissingMockedSlot", address, index>>)
             ELSE Err(<<"MissingSlot", address, index>>)

\* TychoDB::storage
storage(accs, address, index) ==
    LET is_mocked == is_mocked_account(accs, address)
        got == get_storage(accs, address, index)
    IN  IF got.some THEN Ok(got.v)
        ELSE IF is_mocked = Some(TRUE)
             THEN Err(<<"MissingMockedSlot", address, index>>)
             ELSE Err(<<"MissingSlot", address, index>>)

\* a basic that answers for an unknown address with an empty success
basic_or_empty(accs, address) == Ok(get_account_info(accs, address))

\* TychoDB::basic
basic(accs, address) ==
    LET got == get_account_info(accs, address)
    IN  IF got.some THEN Ok(Some(got.v)) ELSE Err(<<"MissingAccount", address>>)

\* a block_hash that knows only the number of the current block
block_hash_of_number(block, number) ==
    IF block.some /\ block.v.number = number THEN Ok(block.v.hash)
    ELSE Err(<<"BlockNotSet">>)

\* TychoDB::block_hash
block_hash(block, number) ==
    IF block.some THEN Ok(block.v.hash) ELSE Err(<<"BlockNotSet">>)

\* AccountStorage::update_account: the delta goes to the transient storage and
\* the balance; an unknown address is created with defaults first
AccountStorage_update_account(accs, address, update) ==
    LET base == IF address \in DOMAIN accs THEN accs[address]
                ELSE [info |-> [balance |-> 0, nonce |-> 0, code_hash |-> KECCAK_EMPTY,
                                code |-> None],
                      permanent_storage |-> None,
                      storage |-> EmptyMap,
                      mocked |-> FALSE]
        with_balance == IF update.balance.some
                        THEN [base EXCEPT !.info.balance = update.balance.v]
                        ELSE base
        with_storage == IF update.storage.some
                        THEN [with_balance EXCEPT !.storage = MapExtend(@, update.storage.v)]
                        ELSE with_balance
    IN  MapPut(accs, address, with_storage)

\* a loop that hands on the balance of each update and leaves out its slots
RECURSIVE update_accounts_without_slots(_, _, _)
update_accounts_without_slots(accs, account_updates, order) ==
    IF order = <<>> THEN accs
    ELSE LET address == Head(order)
             update_info == account_updates[address]
             account_update == [storage |-> None, balance |-> update_info.balance]
         IN  update_accounts_without_slots(
                 AccountStorage_update_account(accs, address, account_update),
                 account_updates, Tail(order))

\* a loop that ends after the first account it visits
update_accounts_first_only(accs, account_updates, order) ==
    IF order = <<>> THEN accs
    ELSE LET address == Head(order)
             update_info == account_updates[address]
             account_update == [storage |-> update_info.slots, balance |-> update_info.balance]
         IN  AccountStorage_update_account(accs, address, account_update)

\* a loop that writes the slots of each update to the permanent storage too
RECURSIVE update_accounts_to_permanent(_, _, _)
update_accounts_to_permanent(accs, account_updates, order) ==
    IF order = <<>> THEN accs
    ELSE LET address == Head(order)
             update_info == account_updates[address]
             account_update == [storage |-> update_info.slots, balance |-> update_info.balance]
             updated == AccountStorage_update_account(accs, address, account_update)
             permanent == updated[address].permanent_storage
             written == IF ~update_info.slots.some THEN updated
                        ELSE [updated EXCEPT ![address].permanent_storage =
                                 Some(MapExtend(IF permanent.some THEN permanent.v
                                                ELSE EmptyMap,
                                                update_info.slots.v))]
         IN  update_accounts_to_permanent(written, account_updates, Tail(order))

\* the loop of TychoDB::update_state over account_updates, visited in `order`
RECURSIVE update_accounts(_, _, _)
update_accounts(accs, account_updates, order) ==
    IF order = <<>> THEN accs
    ELSE LET address == Head(order)
             update_info == account_updates[address]
             account_update == [storage |-> update_info.slots, balance |-> update_info.balance]
         IN  update_accounts(AccountStorage_update_account(accs, address, account_update),
                             account_updates, Tail(order))

(***************************************************************************)
(* The history of a DB: what its callers did to it, kept apart from what   *)
(* the DB itself holds, so that what a read returns can be compared with   *)
(* what was asked of the DB.                                               *)
(*   permanent  address -> the permanent storage given at its init_account *)
(*   written    address -> slot -> the value the most recent block delta   *)
(*              that named the slot gave it, since the address was last    *)
(*              initialised                                                *)
(*   block      the start block, or the block of the most recent delta     *)
(*   deleted    the addresses a Deletion update named and that no          *)
(*              init_account or Creation update named since                *)
(*   priced     the pool states in which set_spot_prices stored a price,   *)
(*              and the new states quotes on such states returned          *)
(***************************************************************************)
\* the lock of the shared DB when nobody holds it:
\*   writers  the tasks that hold it for writing
\*   readers  the tasks that hold it for reading
\*   pending  the block delta an update_state is in the middle of, with the
\*            addresses it has yet to visit
NoLock == [writers |-> {}, readers |-> {}, pending |-> None]

\* TychoDB::new(start_block): nothing was done yet
NewHistory(start_block) ==
    [permanent |-> EmptyMap, written |-> EmptyMap, block |-> start_block, deleted |-> {},
     priced |-> {}]

\* the history after set_spot_prices on the pool state self, which it left as `left`
HistorySetSpotPrices(h, self, left) ==
    IF left = self THEN h ELSE [h EXCEPT !.priced = (@ \ {self}) \cup {left}]

\* the pairs whose prices in new_state, returned by a quote of sell_token for
\* buy_token on self, are those of self: all if the quote stored no price, all
\* but the quoted pair if it did
inherited_prices(self, new_state, sell_token, buy_token) ==
    IF new_state.spot_prices = self.spot_prices
    THEN DOMAIN self.spot_prices
    ELSE (DOMAIN self.spot_prices) \ {<<sell_token, buy_token>>, <<buy_token, sell_token>>}

\* the history after a get_amount_out on the pool state self that returned `result`:
\* the new state is a clone of self with the prices of the quoted pair replaced
HistoryGetAmountOut(h, self, sell_token, buy_token, result) ==
    IF self \in h.priced /\ result.ok
    THEN IF inherited_prices(self, result.v.new_state, sell_token, buy_token) # {}
         THEN [h EXCEPT !.priced = @ \cup {result.v.new_state}]
         ELSE h
    ELSE h

\* the history after init_account(address, _, permanent_storage, _)
HistoryInitAccount(h, address, permanent_storage) ==
    [h EXCEPT !.permanent = MapPut(@, address, permanent_storage),
              !.written = MapPut(@, address, EmptyMap),
              !.deleted = @ \ {address}]

\* the history after update_state(new_state)
HistoryUpdateState(h, new_state) ==
    LET updates == new_state.account_updates
        named == DOMAIN updates
        slots_of(a) == IF updates[a].slots.some THEN updates[a].slots.v ELSE EmptyMap
        before(a) == IF a \in DOMAIN h.written THEN h.written[a] ELSE EmptyMap
    IN  [h EXCEPT !.written = [a \in DOMAIN @ \cup named |->
                                  IF a \in named THEN MapExtend(before(a), slots_of(a))
                                  ELSE @[a]],
                  !.block = Some(new_state.block),
                  !.deleted = (@ \ {a \in named : updates[a].change = "Creation"})
                              \cup {a \in named : updates[a].change = "Deletion"}]

(***************************************************************************)
(* f64 prices, kept exact as reduced fractions <<numerator, denominator>>  *)
(***************************************************************************)
RECURSIVE Gcd(_, _)
Gcd(a, b) == IF b = 0 THEN a ELSE Gcd(b, a % b)
Fraction(n, d) == IF n = 0 THEN <<0, 1>> ELSE <<n \div Gcd(n, d), d \div Gcd(n, d)>>
ZeroPrice == <<0, 1>>
\* a reciprocal that hands the price back as it is
SamePrice(p) == p
\* 1.0f64 / p
Reciprocal(p) == <<p[2], p[1]>>

(***************************************************************************)
(* ERC20OverwriteFactory: storage overwrites at the ERC20 slot layout.     *)
(* A mapping slot keccak256(pad(key) || pad(slot)) is kept as the tuple of *)
(* what is hashed, so that distinct inputs give distinct slots.            *)
(***************************************************************************)
SLOT_0 == "slot0"
SLOT_1 == "slot1"
DefaultSlots == <<SLOT_0, SLOT_1>>
BalanceSlot(holder, balance_slot) == <<"balance", holder, "-", balance_slot>>
AllowanceSlot(owner, spender, allowance_slot) == <<"allowance", owner, spender, allowance_slot>>

ERC20OverwriteFactory_new(token_address, token_slots) ==
    [token_address |-> token_address,
     balance_slot |-> token_slots[1],
     allowance_slot |-> token_slots[2],
     overwrites |-> EmptyMap]
set_balance(factory, balance, owner) ==
    [factory EXCEPT !.overwrites =
        MapPut(factory.overwrites, BalanceSlot(owner, factory.balance_slot), balance)]
set_allowance(factory, allowance, spender, owner) ==
    [factory EXCEPT !.overwrites =
        MapPut(factory.overwrites, AllowanceSlot(owner, spender, factory.allowance_slot), allowance)]
factory_get_overwrites(factory) ==
    MapPut(EmptyMap, factory.token_address, factory.overwrites)

(***************************************************************************)
(* Simulation engine and adapter contract facade.                          *)
(* The adapter bytecode is external to the repository; it is modelled as a *)
(* constant-product pool whose reserves are the token balances of VAULT,   *)
(* and whose answers are a function of the storage it reads (state DB      *)
(* under the overrides of the call) and of the call's arguments.           *)
(***************************************************************************)
\* SimulationEngine: a storage read during a call, overrides shadowing the DB
sload(accs, overrides, address, index) ==
    IF address \in DOMAIN overrides /\ index \in DOMAIN overrides[address]
    THEN Ok(overrides[address][index])
    ELSE storage(accs, address, index)

\* the code a call to ADAPTER_ADDRESS runs
adapter_code(accs) ==
    LET info == basic(accs, ADAPTER_ADDRESS)
    IN  IF info.ok /\ info.v.v.code.some THEN Some(info.v.v.code.v.bytes) ELSE None

SimulationEngineError == Err(<<"SimulationEngineError">>)

\* TychoSimulationContract::get_capabilities
get_capabilities(accs, pool_id, t0, t1) ==
    LET code == adapter_code(accs)
    IN  IF ~code.some THEN SimulationEngineError
        ELSE IF <<t0, t1>> \notin DOMAIN code.v.caps THEN SimulationEngineError
        ELSE Ok(code.v.caps[<<t0, t1>>])

\* getLimits, from the results of the reads of both reserves
limits_with_reads(rs, rb) ==
    IF ~rs.ok \/ ~rb.ok THEN SimulationEngineError
    ELSE Ok(<<rs.v \div 2, rb.v \div 2>>)

\* TychoSimulationContract::get_limits: (sell_limit, buy_limit)
get_limits(accs, pool_id, sell_token, buy_token, block_number, overwrites) ==
    IF ~adapter_code(accs).some \/ sell_token = buy_token THEN SimulationEngineError
    ELSE limits_with_reads(sload(accs, overwrites, sell_token, BalanceSlot(VAULT, SLOT_0)),
                           sload(accs, overwrites, buy_token, BalanceSlot(VAULT, SLOT_0)))

\* the slots of `writes` whose value differs from the value read
ChangedSlots(reads, writes) ==
    [s \in {t \in DOMAIN writes : writes[t] # reads[t]} |-> writes[s]]

VaultBalance == BalanceSlot(VAULT, SLOT_0)
ExternalBalance == BalanceSlot(EXTERNAL_ACCOUNT, SLOT_0)
ExternalAllowance == AllowanceSlot(EXTERNAL_ACCOUNT, ADAPTER_ADDRESS, SLOT_1)

\* swap: the trade and the state changes, from the amount bought and the slots
\* the token transfers changed
swap_output(sell_token, buy_token, amount, out, sell_changed, buy_changed) ==
    LET touched == {t \in {sell_token, buy_token} :
                       DOMAIN (IF t = sell_token THEN sell_changed ELSE buy_changed) # {}}
    IN  Ok(<<[received_amount |-> out,
              gas_used |-> 20 + Cardinality(DOMAIN sell_changed) + Cardinality(DOMAIN buy_changed),
              price |-> IF amount = 0 THEN ZeroPrice ELSE Fraction(out, amount)],
             [a \in touched \cup {EXTERNAL_ACCOUNT} |->
                IF a = EXTERNAL_ACCOUNT THEN [storage |-> None, balance |-> None]
                ELSE [storage |-> Some(IF a = sell_token THEN sell_changed ELSE buy_changed),
                      balance |-> None]]>>)

\* swap: the transfers, from the amount bought and the values read
swap_transfers(sell_token, buy_token, amount, out, rs, rb, es, al, eb) ==
    swap_output(sell_token, buy_token, amount, out,
        ChangedSlots((VaultBalance :> rs) @@ (ExternalBalance :> es) @@ (ExternalAllowance :> al),
                     (VaultBalance :> rs + amount) @@ (ExternalBalance :> es - amount)
                        @@ (ExternalAllowance :> al - amount)),
        ChangedSlots((VaultBalance :> rb) @@ (ExternalBalance :> eb),
                     (VaultBalance :> rb - out) @@ (ExternalBalance :> eb + out)))

\* swap, from the results of the storage reads it makes: the reserves of both
\* tokens, the seller's balance and allowance, the buyer's balance
swap_with_reads(sell_token, buy_token, amount, rs, rb, es, al, eb) ==
    IF ~rs.ok \/ ~rb.ok \/ ~es.ok \/ ~al.ok \/ ~eb.ok THEN SimulationEngineError
    ELSE IF amount > es.v \/ amount > al.v THEN SimulationEngineError
    ELSE swap_transfers(sell_token, buy_token, amount,
                        IF amount = 0 THEN 0 ELSE (amount * rb.v) \div (rs.v + amount),
                        rs.v, rb.v, es.v, al.v, eb.v)

\* TychoSimulationContract::swap: (trade, state_changes)
swap(accs, pool_id, sell_token, buy_token, is_buy, amount, block_number, overwrites) ==
    IF ~adapter_code(accs).some \/ sell_token = buy_token THEN SimulationEngineError
    ELSE swap_with_reads(sell_token, buy_token, amount,
                         sload(accs, overwrites, sell_token, VaultBalance),
                         sload(accs, overwrites, buy_token, VaultBalance),
                         sload(accs, overwrites, sell_token, ExternalBalance),
                         sload(accs, overwrites, sell_token, ExternalAllowance),
                         sload(accs, overwrites, buy_token, ExternalBalance))

\* price, from the results of the reads of both reserves: for each sample
\* amount what a swap of that amount would pay per unit sold, and for a sample
\* of zero the ratio of the reserves
price_with_reads(amounts, rs, rb) ==
    IF ~rs.ok \/ ~rb.ok THEN SimulationEngineError
    ELSE IF rs.v = 0 THEN SimulationEngineError
    ELSE Ok([k \in DOMAIN amounts |->
                IF amounts[k] = 0 THEN Fraction(rb.v, rs.v)
                ELSE Fraction((amounts[k] * rb.v) \div (rs.v + amounts[k]), amounts[k])])

\* TychoSimulationContract::price: one price per sample amount
price(accs, pool_id, sell_token, buy_token, amounts, block_number, overwrites) ==
    IF ~adapter_code(accs).some \/ sell_token = buy_token THEN SimulationEngineError
    ELSE price_with_reads(amounts,
                          sload(accs, overwrites, sell_token, VaultBalance),
                          sload(accs, overwrites, buy_token, VaultBalance))

(***************************************************************************)
(* VMPoolState                                                             *)
(***************************************************************************)
IsPanic(r) == ~r.ok /\ r.err[1] = "panic"
Panic(msg) == Err(<<"panic", msg>>)

\* the 20-byte addresses a string can parse to
Address20 == {DAI, BAL, WETH, VAULT, POOLC, NULL_ADDRESS, PRECOMPILE_4, EXTERNAL_ACCOUNT, ADAPTER_ADDRESS}
\* str::parse::<H160>() of a pool id <<"0x", hex>>
ParseAddress(id) ==
    IF id[2] \in Address20 THEN Ok(id[2])
    ELSE Err(<<"EncodingError", "Pool ID is not an address">>)
\* id[2..]
StripPrefix(id) == SubSeq(id, 2, Len(id))

\* an ensure_capability that accepts any capability once the pool has some
ensure_capability_of_any(self, capability) ==
    IF self.capabilities = {}
    THEN Err(<<"NotFound", "capability", capability>>)
    ELSE Ok(<<>>)

\* VMPoolState::ensure_capability
ensure_capability(self, capability) ==
    IF capability \notin self.capabilities
    THEN Err(<<"NotFound", "capability", capability>>)
    ELSE Ok(<<>>)

\* a merge in which the target's value stays at a slot both maps hold
merge_keeping_target(target, source) ==
    [key \in (DOMAIN target) \cup (DOMAIN source) |->
        IF key \in DOMAIN target
        THEN MapExtend(IF key \in DOMAIN source THEN source[key] ELSE EmptyMap, target[key])
        ELSE source[key]]

\* VMPoolState::merge
merge(target, source) ==
    [key \in (DOMAIN target) \cup (DOMAIN source) |->
        IF key \in DOMAIN source
        THEN MapExtend(IF key \in DOMAIN target THEN target[key] ELSE EmptyMap, source[key])
        ELSE target[key]]

\* the loop of VMPoolState::get_balance_overwrites
RECURSIVE balance_overwrites_loop(_, _, _, _)
balance_overwrites_loop(self, address, tokens, balance_overwrites) ==
    IF tokens = <<>> THEN Ok(balance_overwrites)
    ELSE LET token == Head(tokens)
             slots == IF token \in self.involved_contracts
                      THEN IF token \in DOMAIN self.token_storage_slots
                           THEN Ok(self.token_storage_slots[token])
                           ELSE Err(<<"EncodingError", "Token storage slots not found">>)
                      ELSE Ok(DefaultSlots)
         IN  IF ~slots.ok THEN slots
             ELSE LET overwrites ==
                         set_balance(ERC20OverwriteFactory_new(token, slots.v),
                                     IF token \in DOMAIN self.balances
                                     THEN self.balances[token] ELSE 0,
                                     address)
                  IN  balance_overwrites_loop(
                          self, address, Tail(tokens),
                          MapExtend(balance_overwrites, factory_get_overwrites(overwrites)))

\* a get_balance_overwrites that takes the null address for a pool id that is
\* no address
get_balance_overwrites_defaulting(self, tokens) ==
    LET address == IF self.balance_owner.some THEN self.balance_owner.v
                   ELSE IF ParseAddress(self.id).ok THEN ParseAddress(self.id).v
                   ELSE NULL_ADDRESS
    IN  balance_overwrites_loop(self, address, tokens, EmptyMap)

\* VMPoolState::get_balance_overwrites
get_balance_overwrites(self, tokens) ==
    LET address == IF self.balance_owner.some THEN Ok(self.balance_owner.v)
                   ELSE ParseAddress(self.id)
    IN  IF ~address.ok THEN address
        ELSE balance_overwrites_loop(self, address.v, tokens, EmptyMap)

\* a get_token_overwrites that writes the pool balances whatever the capabilities
get_token_overwrites_with_balances(self, tokens, max_amount) ==
    LET sell_token == tokens[1]
        balances == get_balance_overwrites(self, tokens)
        factory == ERC20OverwriteFactory_new(
                       sell_token,
                       IF sell_token \in DOMAIN self.token_storage_slots
                       THEN self.token_storage_slots[sell_token] ELSE DefaultSlots)
        with_balance == set_balance(factory, max_amount, EXTERNAL_ACCOUNT)
        with_allowance == set_allowance(with_balance, max_amount, ADAPTER_ADDRESS, EXTERNAL_ACCOUNT)
    IN  IF ~balances.ok THEN balances
        ELSE Ok(merge(merge(EmptyMap, balances.v), factory_get_overwrites(with_allowance)))

\* VMPoolState::get_token_overwrites
get_token_overwrites(self, tokens, max_amount) ==
    LET sell_token == tokens[1]
        balances == IF "TokenBalanceIndependent" \notin self.capabilities
                    THEN get_balance_overwrites(self, tokens)
                    ELSE Ok(EmptyMap)
        factory == ERC20OverwriteFactory_new(
                       sell_token,
                       IF sell_token \in DOMAIN self.token_storage_slots
                       THEN self.token_storage_slots[sell_token] ELSE DefaultSlots)
        with_balance == set_balance(factory, max_amount, EXTERNAL_ACCOUNT)
        with_allowance == set_allowance(with_balance, max_amount, ADAPTER_ADDRESS, EXTERNAL_ACCOUNT)
    IN  IF ~balances.ok THEN balances
        ELSE Ok(merge(merge(EmptyMap, balances.v), factory_get_overwrites(with_allowance)))

\* a get_overwrites that leaves the block-lasting overwrites out
get_overwrites_of_tokens(self, tokens, max_amount) ==
    get_token_overwrites(self, tokens, max_amount)

\* VMPoolState::get_overwrites
get_overwrites(self, tokens, max_amount) ==
    LET token_overwrites == get_token_overwrites(self, tokens, max_amount)
    IN  IF ~token_overwrites.ok THEN token_overwrites
        ELSE Ok(merge(self.block_lasting_overwrites, token_overwrites.v))

\* VMPoolState::get_sell_amount_limit
get_sell_amount_limit(self, accs, tokens, overwrites) ==
    IF ~self.adapter_contract THEN Err(<<"NotInitialized", "Adapter contract">>)
    ELSE LET limits == get_limits(accs, StripPrefix(self.id), tokens[1], tokens[2],
                                  self.block.number, overwrites)
         IN  IF ~limits.ok THEN limits ELSE Ok(limits.v[1])

\* a sell-limit check that also fires when the amount equals the limit
sell_amount_reaches_limit(self, sell_amount, sell_amount_limit) ==
    "HardLimits" \in self.capabilities /\ sell_amount_limit <= sell_amount

\* get_amount_out: the sell-limit check
sell_amount_exceeds_limit(self, sell_amount, sell_amount_limit) ==
    "HardLimits" \in self.capabilities /\ sell_amount_limit < sell_amount

\* get_amount_out: the amount swap is asked to sell
sell_amount_respecting_limit(self, sell_amount, sell_amount_limit) ==
    IF sell_amount_exceeds_limit(self, sell_amount, sell_amount_limit)
    THEN sell_amount_limit ELSE sell_amount

\* a fold of the state changes that replaces an address's overwrites by the
\* slots swap reported for it
apply_state_changes_replacing(overwrites, state_changes) ==
    LET with_storage == {a \in DOMAIN state_changes :
                            state_changes[a].storage.some
                            /\ DOMAIN state_changes[a].storage.v # {}}
    IN  [a \in (DOMAIN overwrites) \cup with_storage |->
            IF a \in with_storage THEN state_changes[a].storage.v ELSE overwrites[a]]

\* get_amount_out: "Apply state changes to the new state"
apply_state_changes(overwrites, state_changes) ==
    LET with_storage == {a \in DOMAIN state_changes :
                            state_changes[a].storage.some
                            /\ DOMAIN state_changes[a].storage.v # {}}
    IN  [a \in (DOMAIN overwrites) \cup with_storage |->
            IF a \in with_storage
            THEN MapExtend(IF a \in DOMAIN overwrites THEN overwrites[a] ELSE EmptyMap,
                           state_changes[a].storage.v)
            ELSE overwrites[a]]

\* a spot price update that sets the price of the quoted direction only
update_spot_price_one_way(spot_prices, sell_token, buy_token, new_price) ==
    IF new_price # ZeroPrice
    THEN MapPut(spot_prices, <<sell_token, buy_token>>, new_price)
    ELSE spot_prices

\* get_amount_out: "Update spot prices"
update_spot_prices(spot_prices, sell_token, buy_token, new_price) ==
    IF new_price # ZeroPrice
    THEN MapPut(MapPut(spot_prices, <<sell_token, buy_token>>, new_price),
                <<buy_token, sell_token>>, Reciprocal(new_price))
    ELSE spot_prices

\* get_amount_out: what the caller gets once swap has returned
amount_out_result(sell_amount_exceeds, buy_amount, gas_used, new_state) ==
    IF sell_amount_exceeds THEN Err(<<"SellAmountTooHigh">>)
    ELSE Ok([amount |-> buy_amount, gas |-> gas_used, new_state |-> new_state])

\* VMPoolState::get_amount_out is modelled in the order of its statements. Besides
\* `result`, what the caller gets, the record it yields keeps what the call did:
\* the overrides of its getLimits call, the amount and overrides of its swap call,
\* and the values it had computed when it returned.
NoCalls == [limits_call |-> None, swap_call |-> None, computed |-> None]

\* get_amount_out, once swap has returned
amount_out_after_swap(self, sell_token, buy_token, exceeds, limits_call, swap_call, swapped) ==
    IF ~swapped.ok
    THEN [limits_call |-> limits_call, swap_call |-> swap_call, computed |-> None,
          result |-> swapped]
    ELSE LET new_state ==
                 [self EXCEPT
                     !.block_lasting_overwrites =
                         apply_state_changes(self.block_lasting_overwrites, swapped.v[2]),
                     !.spot_prices =
                         update_spot_prices(self.spot_prices, sell_token, buy_token,
                                            swapped.v[1].price)]
         IN  [limits_call |-> limits_call,
              swap_call |-> swap_call,
              computed |-> Some([amount |-> swapped.v[1].received_amount,
                                 gas |-> swapped.v[1].gas_used,
                                 price |-> swapped.v[1].price,
                                 new_state |-> new_state,
                                 state_changes |-> swapped.v[2]]),
              result |-> amount_out_result(exceeds, swapped.v[1].received_amount,
                                           swapped.v[1].gas_used, new_state)]

\* get_amount_out, from the swap call on
amount_out_swap(self, accs, sell_token, buy_token, exceeds, amount, limits_call, swap_call) ==
    amount_out_after_swap(self, sell_token, buy_token, exceeds, limits_call, swap_call,
        IF ~self.adapter_contract THEN Err(<<"NotInitialized", "Adapter contract">>)
        ELSE swap(accs, StripPrefix(self.id), sell_token, buy_token, FALSE, amount,
                  self.block.number, swap_call.v.overwrites))

\* get_amount_out, once the overrides of the second pass are built
amount_out_with_sell_limit(self, accs, sell_token, sell_amount, buy_token, overwrites, sell_amount_limit, overwrites_with_sell_limit) ==
    IF ~overwrites_with_sell_limit.ok
    THEN [limits_call |-> Some([overwrites |-> overwrites]), swap_call |-> None,
          computed |-> None, result |-> overwrites_with_sell_limit]
    ELSE amount_out_swap(
             self, accs, sell_token, buy_token,
             sell_amount_exceeds_limit(self, sell_amount, sell_amount_limit),
             sell_amount_respecting_limit(self, sell_amount, sell_amount_limit),
             Some([overwrites |-> overwrites]),
             Some([amount |-> sell_amount_respecting_limit(self, sell_amount, sell_amount_limit),
                   sell_limit |-> sell_amount_limit,
                   overwrites |-> merge(overwrites, overwrites_with_sell_limit.v)]))

\* a get_amount_out that hands swap the overrides of the first pass
amount_out_with_first_pass(self, accs, sell_token, sell_amount, buy_token, overwrites, sell_amount_limit) ==
    IF ~sell_amount_limit.ok
    THEN [limits_call |-> Some([overwrites |-> overwrites]), swap_call |-> None,
          computed |-> None, result |-> sell_amount_limit]
    ELSE amount_out_with_sell_limit(
             self, accs, sell_token, sell_amount, buy_token, overwrites, sell_amount_limit.v,
             Ok(overwrites))

\* get_amount_out, once getLimits has returned
amount_out_with_limit(self, accs, sell_token, sell_amount, buy_token, overwrites, sell_amount_limit) ==
    IF ~sell_amount_limit.ok
    THEN [limits_call |-> Some([overwrites |-> overwrites]), swap_call |-> None,
          computed |-> None, result |-> sell_amount_limit]
    ELSE amount_out_with_sell_limit(
             self, accs, sell_token, sell_amount, buy_token, overwrites, sell_amount_limit.v,
             get_overwrites(self, <<sell_token, buy_token>>, sell_amount_limit.v))

\* get_amount_out, once the overrides of the first pass are built
amount_out_with_overwrites(self, accs, sell_token, sell_amount, buy_token, overwrites) ==
    IF ~overwrites.ok THEN NoCalls @@ [result |-> overwrites]
    ELSE amount_out_with_limit(
             self, accs, sell_token, sell_amount, buy_token, overwrites.v,
             get_sell_amount_limit(self, accs, <<sell_token, buy_token>>, overwrites.v))

\* VMPoolState::get_amount_out
get_amount_out(self, accs, sell_token, sell_amount, buy_token) ==
    amount_out_with_overwrites(
        self, accs, sell_token, sell_amount, buy_token,
        get_overwrites(self, <<sell_token, buy_token>>, MaxBalanceFraction))

\* itertools permutations(2) over the positions of a list of n tokens, in order
PositionPairs(n) ==
    [k \in 1..(n * (n - 1)) |->
        LET i == (k - 1) \div (n - 1)
            jj == (k - 1) % (n - 1)
        IN  <<i + 1, IF jj < i THEN jj + 1 ELSE jj + 2>>]

\* 10f64.powi(n)
Pow10(n) == 10 ^ n

\* set_spot_prices: unscaled_price * 10^sell_decimals / 10^buy_decimals, the
\* powers of ten both operands share being cancelled
normalize_price(unscaled_price, sell_decimals, buy_decimals) ==
    LET common == IF sell_decimals < buy_decimals THEN sell_decimals ELSE buy_decimals
    IN  Fraction(unscaled_price[1] * Pow10(sell_decimals - common),
                 unscaled_price[2] * Pow10(buy_decimals - common))

\* set_spot_prices: the price stored for one pair, from the reply of price
spot_price_of(self, sell_token, buy_token, price_result) ==
    IF Len(price_result) = 0 THEN Err(<<"DecodingError", "Spot price is not a u64">>)
    ELSE IF "ScaledPrice" \in self.capabilities THEN Ok(price_result[1])
    ELSE Ok(normalize_price(price_result[1], sell_token.decimals, buy_token.decimals))

\* set_spot_prices: one pass of the loop, from the reply of getLimits on;
\* [result, self, calls], calls being the adapter calls made so far
spot_price_with_limit(self, accs, sell_token, buy_token, overwrites, sell_amount_limit, calls) ==
    IF ~self.adapter_contract
    THEN [result |-> Err(<<"NotInitialized", "Adapter contract">>), self |-> self,
          calls |-> calls]
    ELSE IF ~sell_amount_limit.ok
    THEN [result |-> sell_amount_limit, self |-> self, calls |-> Append(calls, "getLimits")]
    ELSE LET price_result == price(accs, StripPrefix(self.id), sell_token.address,
                                   buy_token.address, <<sell_amount_limit.v \div 100>>,
                                   self.block.number, overwrites)
             stored == IF price_result.ok
                       THEN spot_price_of(self, sell_token, buy_token, price_result.v)
                       ELSE price_result
         IN  [result |-> IF stored.ok THEN Ok(<<>>) ELSE stored,
              self |-> IF stored.ok
                       THEN [self EXCEPT !.spot_prices =
                                MapPut(@, <<sell_token.address, buy_token.address>>, stored.v)]
                       ELSE self,
              calls |-> calls \o <<"getLimits", "price">>]

\* set_spot_prices: one pass of the loop
spot_price_of_pair(self, accs, sell_token, buy_token, calls) ==
    LET overwrites == get_overwrites(self, <<sell_token.address, buy_token.address>>,
                                     MaxBalanceFraction)
    IN  IF ~overwrites.ok THEN [result |-> overwrites, self |-> self, calls |-> calls]
        ELSE spot_price_with_limit(
                 self, accs, sell_token, buy_token, overwrites.v,
                 get_sell_amount_limit(self, accs, <<sell_token.address, buy_token.address>>,
                                       overwrites.v),
                 calls)

\* set_spot_prices: the loop over the ordered pairs of tokens; the pool is
\* changed in place, so a pass that fails leaves what the passes before it stored
RECURSIVE spot_prices_loop(_, _, _, _, _)
spot_prices_loop(self, accs, tokens, pairs, calls) ==
    IF pairs = <<>> THEN [result |-> Ok(<<>>), self |-> self, calls |-> calls]
    ELSE LET pass == spot_price_of_pair(self, accs, tokens[Head(pairs)[1]],
                                        tokens[Head(pairs)[2]], calls)
         IN  IF ~pass.result.ok THEN pass
             ELSE spot_prices_loop(pass.self, accs, tokens, Tail(pairs), pass.calls)

\* a set_spot_prices that asks for the prices without checking PriceFunction
set_spot_prices_unchecked(self, accs, tokens) ==
    spot_prices_loop(self, accs, tokens, PositionPairs(Len(tokens)), <<>>)

\* VMPoolState::set_spot_prices(tokens): [result, self, calls], self being the
\* pool as the call leaves it and calls the adapter calls it made
set_spot_prices(self, accs, tokens) ==
    LET capable == ensure_capability(self, "PriceFunction")
    IN  IF ~capable.ok THEN [result |-> capable, self |-> self, calls |-> <<>>]
        ELSE spot_prices_loop(self, accs, tokens, PositionPairs(Len(tokens)), <<>>)

(***************************************************************************)
(* Pool construction: VMPoolState::new, set_engine, set_capabilities       *)
(***************************************************************************)
\* the ordered pairs of tokens an adapter answers for
TokenPairs == {p \in {DAI, BAL, WETH} \X {DAI, BAL, WETH} : p[1] # p[2]}
BalancerCapabilities == {"SellSide", "BuySide", "PriceFunction", "HardLimits"}

\* the adapter runtime files that exist, by path: each is the bytecode, of which
\* the model keeps its name and the capabilities it reports per ordered pair
AdapterFiles ==
    [path \in {"BalancerV2SwapAdapter.evm.runtime", "Independent.evm.runtime",
               "NonUniform.evm.runtime"} |->
        [name |-> path,
         caps |-> [p \in TokenPairs |->
            CASE path = "BalancerV2SwapAdapter.evm.runtime" -> BalancerCapabilities
              [] path = "Independent.evm.runtime" ->
                    {"SellSide", "PriceFunction", "TokenBalanceIndependent"}
              [] OTHER ->
                    IF p = <<DAI, BAL>> THEN BalancerCapabilities \cup {"MarginalPrice"}
                    ELSE IF p = <<BAL, DAI>> THEN {"SellSide", "BuySide", "HardLimits", "ScaledPrice"}
                    ELSE {"SellSide", "PriceFunction", "HardLimits"}]]]

\* utils::get_contract_bytecode
get_contract_bytecode(path) ==
    IF path \in DOMAIN AdapterFiles THEN Ok(Bytecode_new_raw(AdapterFiles[path]))
    ELSE Err(<<"AbiError">>)

EmptyAccountInfo == [balance |-> 0, nonce |-> 0, code_hash |-> KECCAK_EMPTY, code |-> None]

\* the address a proxy answers a synthetic call with
IMPLEMENTATION == "IMPLEMENTATION"

\* a String, kept as its pieces between colons; `quoted` tells that it is the
\* Debug rendering of a string, which begins and ends with a double quote
Str(pieces) == [quoted |-> FALSE, pieces |-> pieces]
\* format!("{:?}", s) of a String s
DebugFormat(s) == [s EXCEPT !.quoted = TRUE]
\* s.starts_with("call")
starts_with_call(s) == ~s.quoted /\ s.pieces[1] = "call"
\* s.parse::<Address>()
parse_address(s) ==
    IF ~s.quoted /\ Len(s.pieces) = 1 /\ s.pieces[1] \in Address20 \cup {IMPLEMENTATION}
    THEN Ok(s.pieces[1])
    ELSE Err(<<"FromHexError">>)

\* utils::get_code_for_contract(address, None): the upstream code source either
\* answers with the code it holds for what it is asked, or fails
get_code_for_contract(source, address) ==
    IF source = "up" THEN Ok(Bytecode_new_raw(<<"code of", address>>))
    ELSE Err(<<"RpcError">>)

\* engine.simulate of the call get_address_from_call builds, decoded as an
\* address: a contract answers with IMPLEMENTATION
simulate_address_call(accs, to, data) ==
    IF ~get_account_info(accs, to).some THEN SimulationEngineError
    ELSE Ok(IMPLEMENTATION)

\* VMPoolState::get_address_from_call: the call of the method named last in
\* `decoded`, by the first 4 bytes of its hash, on the address named second
get_address_from_call(self, accs, decoded) ==
    IF Len(decoded.pieces) < 2
    THEN Err(<<"DecodingError", "Invalid decoded string format">>)
    ELSE IF decoded.pieces[2] \notin Address20
    THEN Err(<<"DecodingError", "Invalid address format">>)
    ELSE simulate_address_call(accs, decoded.pieces[2],
                               <<"keccak4", decoded.pieces[Len(decoded.pieces)]>>)

\* set_engine, loop over stateless_contracts: addr_str after a call that gave
\* `called`
called_address_string(called) ==
    IF called.ok THEN Ok(Str(<<called.v>>)) ELSE called

\* set_engine, loop over stateless_contracts: the string the code is asked for
\* when no bytecode is given
stateless_code_key(self, accs, address) ==
    IF starts_with_call(DebugFormat(address))
    THEN called_address_string(get_address_from_call(self, accs, DebugFormat(address)))
    ELSE Ok(DebugFormat(address))

\* set_engine, loop over stateless_contracts: the code fetched for `key`
fetched_code(source, key) ==
    IF key.ok THEN get_code_for_contract(source, key.v) ELSE key

\* set_engine, loop over stateless_contracts: the code of one entry
stateless_code(self, accs, source, address) ==
    IF ~self.stateless_contracts[address].some
    THEN fetched_code(source, stateless_code_key(self, accs, address))
    ELSE Ok(Bytecode_new_raw(self.stateless_contracts[address].v))

\* set_engine, loop over stateless_contracts: the account installed for `code`
stateless_account(code) ==
    [balance |-> 0, nonce |-> 0, code_hash |-> keccak256(code.bytes), code |-> Some(code)]

\* set_engine, loop over stateless_contracts: init_account at the key parsed
\* as an address, [result, accounts]
install_at_parsed(accs, parsed, code) ==
    IF ~parsed.ok
    THEN [result |-> Panic("called Result::unwrap() on an Err value"), accounts |-> accs]
    ELSE [result |-> Ok(<<>>),
          accounts |-> init_account(accs, parsed.v, stateless_account(code), None, FALSE)]

\* set_engine, loop over stateless_contracts: one pass, [result, accounts]
install_stateless_contract(accs, address, code) ==
    IF ~code.ok THEN [result |-> code, accounts |-> accs]
    ELSE install_at_parsed(accs, parse_address(address), code.v)

\* the key the loop over stateless_contracts takes next
next_stateless_key(todo) == CHOOSE a \in todo : TRUE

\* the loop of set_engine over stateless_contracts: [result, accounts]
RECURSIVE install_stateless_contracts(_, _, _, _)
RECURSIVE after_stateless_contract(_, _, _, _)
after_stateless_contract(self, source, rest, pass) ==
    IF ~pass.result.ok THEN pass
    ELSE install_stateless_contracts(self, pass.accounts, source, rest)

install_stateless_contracts(self, accs, source, todo) ==
    IF todo = {} THEN [result |-> Ok(<<>>), accounts |-> accs]
    ELSE after_stateless_contract(
             self, source, todo \ {next_stateless_key(todo)},
             install_stateless_contract(
                 accs, next_stateless_key(todo),
                 stateless_code(self, accs, source, next_stateless_key(todo))))

\* set_engine, once the stateless contracts were gone through
engine_with_stateless(self, with_stateless) ==
    IF ~with_stateless.result.ok THEN with_stateless
    ELSE [result |-> Ok([self EXCEPT !.engine = TRUE]),
          accounts |-> with_stateless.accounts]

\* VMPoolState::set_engine: [result, accounts], the DB as the call leaves it
set_engine(self, accs, adapter_contract_path, source) ==
    IF self.engine THEN [result |-> Ok(self), accounts |-> accs]
    ELSE
    LET with_null == init_account(accs, NULL_ADDRESS, EmptyAccountInfo, None, FALSE)
        with_precompile == init_account(with_null, PRECOMPILE_4, EmptyAccountInfo, None, FALSE)
        adapter_contract_code == get_contract_bytecode(adapter_contract_path)
    IN  IF ~adapter_contract_code.ok
        THEN [result |-> adapter_contract_code, accounts |-> with_precompile]
        ELSE
        LET with_adapter ==
                init_account(with_precompile, ADAPTER_ADDRESS,
                             [balance |-> MAX_BALANCE, nonce |-> 0,
                              code_hash |-> keccak256(adapter_contract_code.v.bytes),
                              code |-> Some(adapter_contract_code.v)],
                             None, FALSE)
        IN  engine_with_stateless(
                self,
                install_stateless_contracts(self, with_adapter, source,
                                            DOMAIN self.stateless_contracts))

\* a fold that keeps the capabilities of the first reply
first_reply_only(acc, capabilities) == acc

\* the fold of set_capabilities: acc.intersection(cap) over every reply
RECURSIVE intersect_all(_, _)
intersect_all(acc, capabilities) ==
    IF capabilities = <<>> THEN acc
    ELSE intersect_all(acc \cap Head(capabilities), Tail(capabilities))

\* a set_capabilities that folds from the empty set, and so returns for a pool
\* without a pair of tokens
set_capabilities_from_empty(self, accs) ==
    LET pairs == PositionPairs(Len(self.tokens))
        replies == [k \in DOMAIN pairs |->
                       get_capabilities(accs, StripPrefix(self.id),
                                        self.tokens[pairs[k][1]], self.tokens[pairs[k][2]])]
        capabilities == [k \in DOMAIN pairs |-> replies[k].v]
    IN  IF ~self.adapter_contract /\ Len(pairs) > 0
        THEN Err(<<"NotInitialized", "Adapter contract">>)
        ELSE IF \E k \in DOMAIN pairs : ~replies[k].ok
        THEN replies[CHOOSE k \in DOMAIN pairs :
                        ~replies[k].ok /\ \A j \in 1..(k - 1) : replies[j].ok]
        ELSE IF Len(pairs) = 0 THEN Ok([self EXCEPT !.capabilities = {}])
        ELSE Ok([self EXCEPT !.capabilities = intersect_all(capabilities[1], capabilities)])

\* VMPoolState::set_capabilities
set_capabilities(self, accs) ==
    LET pairs == PositionPairs(Len(self.tokens))
        replies == [k \in DOMAIN pairs |->
                       get_capabilities(accs, StripPrefix(self.id),
                                        self.tokens[pairs[k][1]], self.tokens[pairs[k][2]])]
        capabilities == [k \in DOMAIN pairs |-> replies[k].v]
    IN  IF ~self.adapter_contract /\ Len(pairs) > 0
        THEN Err(<<"NotInitialized", "Adapter contract">>)
        ELSE IF \E k \in DOMAIN pairs : ~replies[k].ok
        THEN replies[CHOOSE k \in DOMAIN pairs :
                        ~replies[k].ok /\ \A j \in 1..(k - 1) : replies[j].ok]
        ELSE IF Len(pairs) = 0 THEN Panic("index out of bounds")
        ELSE Ok([self EXCEPT !.capabilities = intersect_all(capabilities[1], capabilities)])

\* VMPoolState::new: the struct it builds before set_engine
VMPoolState_fields(args) ==
    [id |-> args.id,
     tokens |-> args.tokens,
     block |-> args.block,
     balances |-> args.balances,
     balance_owner |-> args.balance_owner,
     spot_prices |-> EmptyMap,
     capabilities |-> {},
     block_lasting_overwrites |-> EmptyMap,
     involved_contracts |-> args.involved_contracts,
     token_storage_slots |-> EmptyMap,
     stateless_contracts |-> args.stateless_contracts,
     trace |-> args.trace,
     engine |-> FALSE,
     adapter_contract |-> FALSE,
     manual_updates |-> args.manual_updates]

\* a new that asks for the capabilities against the DB as it finds it, and
\* sets the engine up afterwards
VMPoolState_new_probing_first(accs, args, source) ==
    LET engine_set == set_engine(VMPoolState_fields(args), accs,
                                 args.adapter_contract_path, source)
    IN  [result |-> IF engine_set.result.ok
                    THEN set_capabilities(
                             [engine_set.result.v EXCEPT !.adapter_contract = TRUE], accs)
                    ELSE engine_set.result,
         accounts |-> engine_set.accounts,
         probed |-> Some(accs),
         engine |-> engine_set.result]

\* VMPoolState::new, from the return of set_engine on
new_with_engine(engine_set) ==
    IF ~engine_set.result.ok
    THEN [result |-> engine_set.result, accounts |-> engine_set.accounts,
          probed |-> None, engine |-> engine_set.result]
    ELSE [result |-> set_capabilities([engine_set.result.v EXCEPT !.adapter_contract = TRUE],
                                      engine_set.accounts),
          accounts |-> engine_set.accounts,
          probed |-> Some(engine_set.accounts),
          engine |-> engine_set.result]

\* VMPoolState::new, args being the record of its arguments and source the
\* state of the upstream code source: [result, accounts, probed, engine], accounts
\* being the DB as the call leaves it, probed the DB set_capabilities ran
\* against, if it ran, and engine the result of set_engine
VMPoolState_new(accs, args, source) ==
    new_with_engine(set_engine(VMPoolState_fields(args), accs,
                               args.adapter_contract_path, source))

\* a pool state behind &dyn ProtocolSim: the value with its concrete type
AsProtocolSim(self) == [type |-> "VMPoolState", v |-> self]
\* a state of another protocol behind &dyn ProtocolSim
UniswapV3State(id) == [type |-> "UniswapV3State", v |-> [id |-> id]]
\* other.as_any().downcast_ref::<VMPoolState<PreCachedDB>>()
downcast_ref(other) == IF other.type = "VMPoolState" THEN Some(other.v) ELSE None

\* an eq that compares the pool states field by field
eq_by_fields(self, other) ==
    IF downcast_ref(other).some THEN self = downcast_ref(other).v ELSE FALSE

\* ProtocolSim::eq for VMPoolState
eq(self, other) ==
    IF downcast_ref(other).some THEN self.id = downcast_ref(other).v.id ELSE FALSE

\* ProtocolSim::delta_transition for VMPoolState: todo!()
delta_transition(self, delta) == Panic("not yet implemented")

(***************************************************************************)
(* The VM pool machine                                                     *)
(***************************************************************************)
Block1 == [number |-> 1, hash |-> "hash1", timestamp |-> 0]
Block2 == [number |-> 2, hash |-> "hash2", timestamp |-> 12]
POOL_ID_32 == <<"0x", "4626d81b3a1711beb79f4cecff2413886d461677000200000000000000000011">>
POOL_ID_20 == <<"0x", POOLC>>
PoolBalances == (DAI :> 2) @@ (BAL :> 6)

\* the arguments of the test's setup_pool_state
BalancerArgs ==
    [id |-> POOL_ID_32,
     tokens |-> <<DAI, BAL>>,
     block |-> Block1,
     balances |-> PoolBalances,
     balance_owner |-> Some(VAULT),
     adapter_contract_path |-> "BalancerV2SwapAdapter.evm.runtime",
     involved_contracts |-> {},
     stateless_contracts |-> EmptyMap,
     manual_updates |-> FALSE,
     trace |-> FALSE]

\* the pools a caller constructs
NewInputs ==
    {BalancerArgs,
     [BalancerArgs EXCEPT !.id = POOL_ID_20, !.balance_owner = None,
                          !.adapter_contract_path = "Independent.evm.runtime"],
     [BalancerArgs EXCEPT !.balance_owner = None],
     [BalancerArgs EXCEPT !.tokens = <<DAI, BAL, WETH>>,
                          !.balances = PoolBalances @@ (WETH :> 3),
                          !.adapter_contract_path = "NonUniform.evm.runtime"],
     [BalancerArgs EXCEPT !.adapter_contract_path = "NoSuchFile.evm.runtime"],
     [BalancerArgs EXCEPT !.involved_contracts = {DAI},
                          !.adapter_contract_path = "NonUniform.evm.runtime"]}

\* the amounts a caller asks quotes for
Amounts == 0..MaxAmount
\* the tokens of a pool
TokensOf(self) == {self.tokens[i] : i \in DOMAIN self.tokens}

\* the token contracts' storage as the DB setup loads it: the vault's balance of
\* each token and the external account's balance of BAL; the external account's
\* balances of DAI and of WETH are slots the DB does not hold
SetupDb ==
    update_accounts(
        init_account(
            init_account(init_account(EmptyMap, DAI, EmptyAccountInfo, None, FALSE),
                         BAL, EmptyAccountInfo, None, FALSE),
            WETH, EmptyAccountInfo, None, FALSE),
        (DAI :> [slots |-> Some(VaultBalance :> 2), balance |-> None])
        @@ (BAL :> [slots |-> Some((VaultBalance :> 6) @@ (ExternalBalance :> 0)),
                    balance |-> None])
        @@ (WETH :> [slots |-> Some(VaultBalance :> 3), balance |-> None]),
        <<DAI, BAL, WETH>>)

Init ==
    /\ accounts = SetupDb
    /\ dbBlock = Some(Block1)
    /\ pools = {}
    /\ last = [op |-> "init"]
    /\ history = NewHistory(dbBlock)
    /\ dbLock = NoLock

\* VMPoolState::new(args)
New(args) ==
    /\ pools = {}
    /\ LET r == VMPoolState_new(accounts, args, "down")
       IN  /\ accounts' = r.accounts
           /\ pools' = IF r.result.ok THEN pools \cup {r.result.v} ELSE pools
           /\ last' = [op |-> "new", args |-> args, result |-> r.result]
    /\ UNCHANGED <<dbBlock, history, dbLock>>

\* self.ensure_capability(capability)
EnsureCapability(self, capability) ==
    /\ self \in pools
    /\ last' = [op |-> "ensure_capability", self |-> self, capability |-> capability,
                result |-> ensure_capability(self, capability)]
    /\ UNCHANGED <<accounts, dbBlock, pools, history, dbLock>>

\* what is remembered of a quote: the call, what it did and returned, and how it
\* relates to the operation before it:
\*   previous  what the operation before returned, if it was this same call
\*   follows   the state changes swap reported to the operation before, if this
\*             call is made on the new state that operation returned
QuoteRecord(self, sell_token, sell_amount, buy_token, r) ==
    [op |-> "get_amount_out", self |-> self, sell_token |-> sell_token,
     sell_amount |-> sell_amount, buy_token |-> buy_token, call |-> r,
     previous |->
        IF /\ last.op = "get_amount_out"
           /\ <<last.self, last.sell_token, last.sell_amount, last.buy_token>>
                = <<self, sell_token, sell_amount, buy_token>>
        THEN Some(last.call.result) ELSE None,
     follows |->
        IF last.op = "get_amount_out" /\ last.call.result.ok
           /\ last.call.result.v.new_state = self
        THEN Some(last.call.computed.v.state_changes) ELSE None]

\* a get_amount_out that folds the state changes into self
GetAmountOutInPlace(self, sell_token, sell_amount, buy_token) ==
    /\ self \in pools
    /\ LET r == get_amount_out(self, accounts, sell_token, sell_amount, buy_token)
       IN  /\ pools' = IF r.computed.some
                       THEN (pools \ {self}) \cup {r.computed.v.new_state}
                       ELSE pools
           /\ last' = QuoteRecord(self, sell_token, sell_amount, buy_token, r)
           /\ history' = HistoryGetAmountOut(history, self, sell_token, buy_token, r.result)
    /\ UNCHANGED <<accounts, dbBlock, dbLock>>

\* a get_amount_out whose new state shares its block_lasting_overwrites map with
\* the state quoted: the entries it adds show in both
GetAmountOutSharingOverwrites(self, sell_token, sell_amount, buy_token) ==
    /\ self \in pools
    /\ LET r == get_amount_out(self, accounts, sell_token, sell_amount, buy_token)
           shared == IF r.result.ok
                     THEN [self EXCEPT !.block_lasting_overwrites =
                                  r.result.v.new_state.block_lasting_overwrites]
                     ELSE self
       IN  /\ pools' = IF r.result.ok /\ Cardinality(pools) < MaxStates
                       THEN (pools \ {self}) \cup {shared, r.result.v.new_state}
                       ELSE (pools \ {self}) \cup {shared}
           /\ last' = QuoteRecord(self, sell_token, sell_amount, buy_token, r)
           /\ history' = HistoryGetAmountOut(history, self, sell_token, buy_token, r.result)
    /\ UNCHANGED <<accounts, dbBlock, dbLock>>

\* a get_amount_out that commits the state changes of swap to the state DB
GetAmountOutCommitting(self, sell_token, sell_amount, buy_token) ==
    /\ self \in pools
    /\ LET r == get_amount_out(self, accounts, sell_token, sell_amount, buy_token)
           changes == IF r.computed.some THEN r.computed.v.state_changes ELSE EmptyMap
       IN  /\ pools' = IF r.result.ok /\ Cardinality(pools) < MaxStates
                       THEN pools \cup {r.result.v.new_state}
                       ELSE pools
           /\ accounts' =
                 [a \in DOMAIN accounts |->
                     IF a \in DOMAIN changes /\ changes[a].storage.some
                     THEN [accounts[a] EXCEPT !.storage = MapExtend(@, changes[a].storage.v)]
                     ELSE accounts[a]]
           /\ last' = QuoteRecord(self, sell_token, sell_amount, buy_token, r)
           /\ history' = HistoryGetAmountOut(history, self, sell_token, buy_token, r.result)
    /\ UNCHANGED <<dbBlock, dbLock>>

\* self.get_amount_out(sell_token, sell_amount, buy_token); the caller keeps the
\* new state of a successful quote while it has room for one more state
GetAmountOut(self, sell_token, sell_amount, buy_token) ==
    /\ self \in pools
    /\ LET r == get_amount_out(self, accounts, sell_token, sell_amount, buy_token)
       IN  /\ pools' = IF r.result.ok /\ Cardinality(pools) < MaxStates
                       THEN pools \cup {r.result.v.new_state}
                       ELSE pools
           /\ last' = QuoteRecord(self, sell_token, sell_amount, buy_token, r)
           /\ history' = HistoryGetAmountOut(history, self, sell_token, buy_token, r.result)
    /\ UNCHANGED <<accounts, dbBlock, dbLock>>

\* the state deltas of the next block that touch the pool: a new balance of its
\* first token
PoolDeltas(self) ==
    {[component_id |-> self.id, block |-> Block2, balances |-> (self.tokens[1] :> 3)]}

\* self.delta_transition(delta): the call panics, self is as it was
DeltaTransition(self, delta) ==
    /\ self \in pools
    /\ last' = [op |-> "delta_transition", self |-> self, delta |-> delta,
                result |-> delta_transition(self, delta)]
    /\ UNCHANGED <<accounts, dbBlock, pools, history, dbLock>>

Next ==
    \/ \E args \in NewInputs : New(args)
    \/ \E self \in pools, capability \in Capability : EnsureCapability(self, capability)
    \/ \E self \in pools, sell_amount \in Amounts :
         \E sell_token \in TokensOf(self) :
            \E buy_token \in TokensOf(self) \ {sell_token} :
               GetAmountOut(self, sell_token, sell_amount, buy_token)
    \/ \E self \in pools : \E delta \in PoolDeltas(self) : DeltaTransition(self, delta)

Spec == Init /\ [][Next]_vars

(***************************************************************************)
(* The pricing machine: pools whose spot prices are set by set_spot_prices *)
(* and by quotes. The reserves are large enough for the sample amount of   *)
(* set_spot_prices, a hundredth of the sell limit, not to be zero.         *)
(***************************************************************************)
PricedBalances == (DAI :> 400) @@ (BAL :> 1200)

\* the pools a caller constructs: the Balancer pool, a pool whose adapter does
\* not report PriceFunction for every pair, a pool whose adapter reads the
\* balances of the DB, and one whose adapter file does not exist
PricedInputs ==
    {[BalancerArgs EXCEPT !.balances = PricedBalances],
     [BalancerArgs EXCEPT !.balances = PricedBalances,
                          !.adapter_contract_path = "NonUniform.evm.runtime"],
     [BalancerArgs EXCEPT !.id = POOL_ID_20, !.balance_owner = None,
                          !.adapter_contract_path = "Independent.evm.runtime"],
     [BalancerArgs EXCEPT !.adapter_contract_path = "NoSuchFile.evm.runtime"]}

\* the tests' dai(), bal() and a token the pools do not hold
ERC20Token(address) == [address |-> address, decimals |-> 18]
\* the token lists a caller asks spot prices for
TokenLists == {<<ERC20Token(BAL), ERC20Token(DAI)>>,
               <<ERC20Token(BAL), ERC20Token(DAI), ERC20Token(WETH)>>}

\* self.set_spot_prices(tokens): the pool is changed in place
SetSpotPrices(self, tokens) ==
    /\ self \in pools
    /\ Cardinality(history.priced) < MaxPriced
    /\ LET r == set_spot_prices(self, accounts, tokens)
       IN  /\ pools' = (pools \ {self}) \cup {r.self}
           /\ last' = [op |-> "set_spot_prices", self |-> self, tokens |-> tokens,
                       result |-> r.result, calls |-> r.calls, left |-> r.self]
           /\ history' = HistorySetSpotPrices(history, self, r.self)
    /\ UNCHANGED <<accounts, dbBlock, dbLock>>

NextPrices ==
    \/ \E args \in PricedInputs : New(args)
    \/ \E self \in pools, tokens \in TokenLists : SetSpotPrices(self, tokens)
    \/ \E self \in pools, sell_amount \in {MaxAmount} :
         \E sell_token \in TokensOf(self) :
            \E buy_token \in TokensOf(self) \ {sell_token} :
               GetAmountOut(self, sell_token, sell_amount, buy_token)

SpecPrices == Init /\ [][NextPrices]_vars

(***************************************************************************)
(* The TychoDB machine: a DB that is set up, updated block by block and    *)
(* read. It shares the variables of the pool machine; pools stays empty.   *)
(***************************************************************************)
ACCOUNT_A == "0xb4e16d0168e52d35cacd2c6185b44281ec28c9dc"
ACCOUNT_B == "0x0000000000000000000000000000000000000000"
DbAddresses == {ACCOUNT_A, ACCOUNT_B}
DbSlots == {0, 123}

\* the accounts a caller sets up: at ACCOUNT_A a plain or a mocked account with
\* no, a non-zero or a zero permanent slot; at ACCOUNT_B a plain account without
\* code, with code and its hash, or, as setup_db passes it, with code and
\* KECCAK_EMPTY for its hash
InitAccountInputs ==
    {[address |-> ACCOUNT_A, account |-> EmptyAccountInfo,
      permanent_storage |-> ps, mocked |-> m] :
        ps \in {None, Some(0 :> 10), Some(0 :> 0)}, m \in BOOLEAN}
    \cup
    {[address |-> ACCOUNT_B, account |-> info, permanent_storage |-> None, mocked |-> FALSE] :
        info \in {EmptyAccountInfo,
                  [EmptyAccountInfo EXCEPT !.code = Some(Bytecode_new_raw("code")),
                                           !.code_hash = keccak256("code")],
                  [EmptyAccountInfo EXCEPT !.code = Some(Bytecode_new_raw("code"))]}}

\* the kinds of change an account update announces
ChangeKinds == {"Update", "Creation", "Deletion"}

\* the account updates of a block: a zero written to slot 0, slot 123 and the
\* balance written, the account created with a balance, the account deleted
AccountUpdates ==
    {[slots |-> Some(0 :> 0), balance |-> None, change |-> "Update"],
     [slots |-> Some(123 :> 123), balance |-> Some(500), change |-> "Update"],
     [slots |-> None, balance |-> Some(500), change |-> "Creation"],
     [slots |-> None, balance |-> None, change |-> "Deletion"]}

\* the updates that write slots and balances of an account that stays
SlotUpdates == {u \in AccountUpdates : u.change = "Update"}

\* the block state changes the indexer sends: slot and balance updates of
\* ACCOUNT_A, any update of ACCOUNT_B, or two different slot and balance updates
\* of the two accounts
BlockStateChanges ==
    {[block |-> b, account_updates |-> u] :
        b \in {Block1, Block2},
        u \in [{ACCOUNT_A} -> SlotUpdates] \cup [{ACCOUNT_B} -> AccountUpdates]
              \cup {v \in [DbAddresses -> SlotUpdates] : v[ACCOUNT_A] # v[ACCOUNT_B]}}

\* the addresses in ascending order of their 160-bit value
DbAddressesAscending == <<ACCOUNT_B, ACCOUNT_A>>

\* address a is lower than address b
AddressLess(a, b) ==
    \E i \in DOMAIN DbAddressesAscending, j \in DOMAIN DbAddressesAscending :
        i < j /\ DbAddressesAscending[i] = a /\ DbAddressesAscending[j] = b

\* the orders in which a HashMap over the addresses `as` can be iterated
IterationOrders(as) ==
    {o \in UNION {[1..n -> as] : n \in {Cardinality(as)}} :
        \A i \in DOMAIN o, j \in DOMAIN o : i # j => o[i] # o[j]}

\* TychoDB::new(start_block)
InitDB ==
    /\ accounts = EmptyMap
    /\ dbBlock \in {None, Some(Block1)}
    /\ pools = {}
    /\ last = [op |-> "new"]
    /\ history = NewHistory(dbBlock)
    /\ dbLock = NoLock

\* db.init_account(address, account, permanent_storage, mocked)
DbInitAccount(in) ==
    /\ accounts' = init_account(accounts, in.address, in.account,
                                in.permanent_storage, in.mocked)
    /\ last' = [op |-> "init_account", in |-> in]
    /\ history' = HistoryInitAccount(history, in.address, in.permanent_storage)
    /\ UNCHANGED <<dbBlock, pools, dbLock>>

\* db.update_state(new_state), the account updates being visited in `order`
DbUpdateState(new_state, order) ==
    /\ dbBlock' = Some(new_state.block)
    /\ accounts' = update_accounts(accounts, new_state.account_updates, order)
    /\ last' = [op |-> "update_state", new_state |-> new_state, order |-> order]
    /\ history' = HistoryUpdateState(history, new_state)
    /\ UNCHANGED <<pools, dbLock>>

\* db.storage(address, index)
DbStorage(address, index) ==
    /\ last' = [op |-> "storage", address |-> address, index |-> index,
                result |-> storage(accounts, address, index)]
    /\ UNCHANGED <<accounts, dbBlock, pools, history, dbLock>>

\* db.basic(address)
DbBasic(address) ==
    /\ last' = [op |-> "basic", address |-> address, result |-> basic(accounts, address)]
    /\ UNCHANGED <<accounts, dbBlock, pools, history, dbLock>>

\* db.block_hash(number)
DbBlockHash(number) ==
    /\ last' = [op |-> "block_hash", number |-> number,
                result |-> block_hash(dbBlock, number)]
    /\ UNCHANGED <<accounts, dbBlock, pools, history, dbLock>>

NextDB ==
    \/ \E in \in InitAccountInputs : DbInitAccount(in)
    \/ \E new_state \in BlockStateChanges :
          \E order \in IterationOrders(DOMAIN new_state.account_updates) :
             DbUpdateState(new_state, order)
    \/ \E address \in DbAddresses, index \in DbSlots : DbStorage(address, index)
    \/ \E address \in DbAddresses : DbBasic(address)
    \/ \E number \in {Block1.number, Block2.number} : DbBlockHash(number)

SpecDB == InitDB /\ [][NextDB]_vars

(***************************************************************************)
(* The decoding machine: words of an adapter's reply are decoded one at a  *)
(* time.                                                                   *)
(***************************************************************************)
\* Capability::from_u256(value)
FromU256(value) ==
    /\ last' = [op |-> "from_u256", value |-> value, result |-> from_u256(value)]
    /\ UNCHANGED <<accounts, dbBlock, pools, history, dbLock>>

NextModels == \E value \in 0..U256_MAX : FromU256(value)

SpecModels == Init /\ [][NextModels]_vars

(***************************************************************************)
(* The shared DB under concurrent tasks: a pool construction that          *)
(* initialises an account, a block update that applies a delta account by  *)
(* account, and a simulation that reads a slot. Each takes the lock of the *)
(* DB first and gives it back when done.                                   *)
(***************************************************************************)
\* the delta `pending` has been applied to some of its accounts and not to all
Torn(pending) ==
    /\ pending.some
    /\ pending.v.order # <<>>
    /\ Len(pending.v.order) < Cardinality(DOMAIN pending.v.new_state.account_updates)

\* a write lock that is handed out at once, whoever holds the lock
WriteLockWithoutWaiting(task) ==
    /\ task \notin dbLock.writers
    /\ dbLock' = [dbLock EXCEPT !.writers = @ \cup {task}]
    /\ last' = [op |-> "write", task |-> task]
    /\ UNCHANGED <<accounts, dbBlock, pools, history>>

\* db.write().await: the task waits until nobody holds the lock
WriteLock(task) ==
    /\ task \notin dbLock.writers
    /\ dbLock.writers = {} /\ dbLock.readers = {}
    /\ dbLock' = [dbLock EXCEPT !.writers = @ \cup {task}]
    /\ last' = [op |-> "write", task |-> task]
    /\ UNCHANGED <<accounts, dbBlock, pools, history>>

\* db.read().await: the task waits until nobody holds the lock for writing
ReadLock(task) ==
    /\ task \notin dbLock.readers
    /\ dbLock.writers = {}
    /\ dbLock' = [dbLock EXCEPT !.readers = @ \cup {task}]
    /\ last' = [op |-> "read", task |-> task]
    /\ UNCHANGED <<accounts, dbBlock, pools, history>>

\* db_write.init_account(address, account, permanent_storage, mocked), the guard
\* being dropped after it
LockedInitAccount(in) ==
    /\ "new" \in dbLock.writers
    /\ accounts' = init_account(accounts, in.address, in.account,
                                in.permanent_storage, in.mocked)
    /\ last' = [op |-> "init_account", in |-> in, during |-> dbLock.pending]
    /\ history' = HistoryInitAccount(history, in.address, in.permanent_storage)
    /\ dbLock' = [dbLock EXCEPT !.writers = @ \ {"new"}]
    /\ UNCHANGED <<dbBlock, pools>>

\* db_write.update_state(new_state), first step: the block is set
LockedUpdateState(new_state, order) ==
    /\ "update" \in dbLock.writers
    /\ ~dbLock.pending.some
    /\ dbBlock' = Some(new_state.block)
    /\ dbLock' = [dbLock EXCEPT !.pending = Some([new_state |-> new_state, order |-> order])]
    /\ last' = [op |-> "update_state", new_state |-> new_state, order |-> order]
    /\ history' = HistoryUpdateState(history, new_state)
    /\ UNCHANGED <<accounts, pools>>

\* update_state, one pass of its loop: the next account is updated
LockedUpdateAccount ==
    /\ dbLock.pending.some
    /\ dbLock.pending.v.order # <<>>
    /\ accounts' = update_accounts(accounts, dbLock.pending.v.new_state.account_updates,
                                   <<Head(dbLock.pending.v.order)>>)
    /\ dbLock' = [dbLock EXCEPT !.pending.v.order = Tail(@)]
    /\ last' = [op |-> "update_account", address |-> Head(dbLock.pending.v.order)]
    /\ UNCHANGED <<dbBlock, pools, history>>

\* update_state returns and the guard is dropped
UpdateStateDone ==
    /\ dbLock.pending.some
    /\ dbLock.pending.v.order = <<>>
    /\ dbLock' = [dbLock EXCEPT !.pending = None, !.writers = @ \ {"update"}]
    /\ last' = [op |-> "update_state_done"]
    /\ UNCHANGED <<accounts, dbBlock, pools, history>>

\* db.storage(address, index) under the read lock, the guard being dropped
\* after it
LockedStorage(task, address, index) ==
    /\ task \in dbLock.readers
    /\ last' = [op |-> "storage", address |-> address, index |-> index,
                result |-> storage(accounts, address, index), during |-> dbLock.pending]
    /\ dbLock' = [dbLock EXCEPT !.readers = @ \ {task}]
    /\ UNCHANGED <<accounts, dbBlock, pools, history>>

\* the tasks: "new" initialises a plain account at ACCOUNT_A, "update" applies a
\* delta of the next block that names both accounts, "simulate" reads a slot
NextLock ==
    \/ \E task \in {"new", "update"} : WriteLock(task)
    \/ ReadLock("simulate")
    \/ \E in \in InitAccountInputs :
          in.address = ACCOUNT_A /\ ~in.mocked /\ LockedInitAccount(in)
    \/ \E new_state \in BlockStateChanges :
          /\ new_state.block = Block2
          /\ DOMAIN new_state.account_updates = DbAddresses
          /\ \E order \in IterationOrders(DbAddresses) : LockedUpdateState(new_state, order)
    \/ LockedUpdateAccount
    \/ UpdateStateDone
    \/ \E address \in DbAddresses, index \in DbSlots :
          LockedStorage("simulate", address, index)

SpecLock == InitDB /\ [][NextLock]_vars

(***************************************************************************)
(* GetAmountOutResult of the protocol models: the fold over hop results    *)
(***************************************************************************)
\* the longest sequence of hop results aggregated
MaxHops == 2

\* GetAmountOutResult::new
GetAmountOutResult_new(amount, gas) == [amount |-> amount, gas |-> gas]

\* an aggregate that adds the amounts up as it does the gas
aggregate_adding_amounts(self, other) ==
    IF self.gas + other.gas > U256_MAX \/ self.amount + other.amount > U256_MAX
    THEN Panic("arithmetic operation overflow")
    ELSE Ok([amount |-> self.amount + other.amount, gas |-> self.gas + other.gas])

\* GetAmountOutResult::aggregate, the value of *self after the call; U256's +=
\* panics when the sum does not fit
aggregate(self, other) ==
    IF self.gas + other.gas > U256_MAX THEN Panic("arithmetic operation overflow")
    ELSE Ok([amount |-> other.amount, gas |-> self.gas + other.gas])

\* the hop results folded
HopResults == {GetAmountOutResult_new(amount, gas) : amount \in {0, MaxAmount}, gas \in {0, 1, U256_MAX}}

\* let mut r0 = GetAmountOutResult::new(..)
FirstHop(r0) ==
    /\ last' = [op |-> "aggregate", first |-> r0, others |-> <<>>, acc |-> Ok(r0)]
    /\ UNCHANGED <<accounts, dbBlock, pools, history, dbLock>>

\* r0.aggregate(&other)
Aggregate(other) ==
    /\ last.op = "aggregate"
    /\ last.acc.ok
    /\ Len(last.others) < MaxHops
    /\ last' = [last EXCEPT !.others = Append(@, other),
                            !.acc = aggregate(last.acc.v, other)]
    /\ UNCHANGED <<accounts, dbBlock, pools, history, dbLock>>

NextAggregate ==
    \/ \E r0 \in HopResults : FirstHop(r0)
    \/ \E other \in HopResults : Aggregate(other)

SpecAggregate == Init /\ [][NextAggregate]_vars

(***************************************************************************)
(* The quickstart example: the loop over the block updates of the stream,  *)
(* selling DAI for BAL. The loop's maps pairs and amounts_out are kept in   *)
(* `last`, with the ids the message handled named and what became of it.   *)
(***************************************************************************)
\* get_best_swap: pairs.entry(id).or_insert_with(comp) over message.new_pairs
insert_new_pairs(pairs, new_pairs) ==
    [id \in (DOMAIN pairs) \cup (DOMAIN new_pairs) |->
        IF id \in DOMAIN pairs THEN pairs[id] ELSE new_pairs[id]]

\* HashSet::from([&sell_token, &buy_token]) == HashSet::from([&tokens[0], &tokens[1]])
is_pair_of_interest(tokens) == {DAI, BAL} = {tokens[1], tokens[2]}

\* a loop over message.states that records the amount of every state that
\* quotes, known to pairs or not
record_amounts_of_any_state(pairs, states, amounts_out) ==
    LET quoted == {id \in DOMAIN states : states[id].amount_out.ok}
    IN  [id \in (DOMAIN amounts_out) \cup quoted |->
            IF id \in quoted THEN states[id].amount_out.v.amount ELSE amounts_out[id]]

\* get_best_swap: the loop over message.states, for components of two tokens or
\* more: the amount of every state whose id is in pairs, whose component holds
\* the two tokens and whose get_amount_out succeeds is inserted
record_amounts(pairs, states, amounts_out) ==
    LET quoted == {id \in (DOMAIN states) \cap (DOMAIN pairs) :
                      /\ is_pair_of_interest(pairs[id].tokens)
                      /\ states[id].amount_out.ok}
    IN  [id \in (DOMAIN amounts_out) \cup quoted |->
            IF id \in quoted THEN states[id].amount_out.v.amount ELSE amounts_out[id]]

\* get_best_swap: amounts_out.iter().max_by_key(value), the keys it may return:
\* the map is iterated in no fixed order, so any key of the highest amount
best_pools(amounts_out) ==
    {id \in DOMAIN amounts_out : \A other \in DOMAIN amounts_out : amounts_out[other] <= amounts_out[id]}

\* get_best_swap: [result, pairs, amounts_out], result being the set of ids it
\* may return (None among them as a record); tokens[1] of a component of fewer
\* than two tokens panics
get_best_swap(message, pairs, amounts_out) ==
    LET inserted == insert_new_pairs(pairs, message.new_pairs)
        recorded == record_amounts(inserted, message.states, amounts_out)
    IN  IF DOMAIN message.states = {}
        THEN [result |-> Ok({None}), pairs |-> inserted, amounts_out |-> amounts_out]
        ELSE IF \E id \in (DOMAIN message.states) \cap (DOMAIN inserted) :
                    Len(inserted[id].tokens) < 2
        THEN [result |-> Panic("index out of bounds"), pairs |-> inserted,
              amounts_out |-> amounts_out]
        ELSE [result |-> Ok(IF DOMAIN recorded = {} THEN {None}
                            ELSE {Some(id) : id \in best_pools(recorded)}),
              pairs |-> inserted, amounts_out |-> recorded]

\* encode: pairs.get(&best_pool).expect("Best pool not found")
encode(pairs, best_pool) ==
    IF best_pool \in DOMAIN pairs THEN Ok(pairs[best_pool])
    ELSE Panic("Best pool not found")

\* the pool ids of the stream and what it sends about them
PoolIds == {"pool1", "pool2"}
Components == {[tokens |-> <<BAL, DAI>>], [tokens |-> <<DAI, WETH>>], [tokens |-> <<DAI>>]}
StreamStates == {[amount_out |-> Err(<<"SimulationError">>)],
                 [amount_out |-> Ok(GetAmountOutResult_new(1, 20))],
                 [amount_out |-> Ok(GetAmountOutResult_new(MaxAmount, 20))]}
BlockUpdates ==
    UNION {[new_pairs : [ids -> Components], states : [quoted -> StreamStates]] :
              ids \in SUBSET PoolIds, quoted \in SUBSET PoolIds}

\* the maps of the loop, empty before the first message
LoopPairs == IF last.op = "block_update" THEN last.pairs ELSE EmptyMap
LoopAmountsOut == IF last.op = "block_update" THEN last.amounts_out ELSE EmptyMap

\* one pass of main's `while let Some(message) = protocol_stream.next().await`
BlockUpdate(message) ==
    /\ last.op = "block_update" => ~IsPanic(last.best_pool) /\ ~IsPanic(last.encoded)
    /\ LET r == get_best_swap(message, LoopPairs, LoopAmountsOut)
       IN  \E best_pool \in (IF r.result.ok THEN r.result.v ELSE {None}) :
              last' = [op |-> "block_update",
                       new_pairs |-> DOMAIN message.new_pairs,
                       states |-> DOMAIN message.states,
                       pairs_before |-> LoopPairs,
                       pairs |-> r.pairs, amounts_out |-> r.amounts_out,
                       best_pool |-> IF r.result.ok THEN Ok(best_pool) ELSE r.result,
                       encoded |-> IF r.result.ok /\ best_pool.some
                                   THEN encode(r.pairs, best_pool.v) ELSE Ok(<<>>)]
    /\ UNCHANGED <<accounts, dbBlock, pools, history, dbLock>>

NextQuickstart == \E message \in BlockUpdates : BlockUpdate(message)

SpecQuickstart == Init /\ [][NextQuickstart]_vars

(***************************************************************************)
(* The construction machine: several pools built over the one shared DB,   *)
(* with stateless contracts and with token lists of any length             *)
(***************************************************************************)
\* the bytes of a stateless contract handed to the constructor
GivenBytes == <<"given">>
\* the key of a stateless contract resolved by a call of DAI's implementation()
CallKey == Str(<<"call", DAI, "implementation()">>)

ConstructionInputs ==
    {BalancerArgs,
     [BalancerArgs EXCEPT !.adapter_contract_path = "NonUniform.evm.runtime"],
     [BalancerArgs EXCEPT !.adapter_contract_path = "NoSuchFile.evm.runtime"],
     [BalancerArgs EXCEPT !.stateless_contracts = Str(<<WETH>>) :> Some(GivenBytes)],
     [BalancerArgs EXCEPT !.stateless_contracts = Str(<<POOLC>>) :> None,
                          !.adapter_contract_path = "NonUniform.evm.runtime"],
     [BalancerArgs EXCEPT !.stateless_contracts = CallKey :> None],
     [BalancerArgs EXCEPT !.stateless_contracts = CallKey :> Some(GivenBytes)],
     [BalancerArgs EXCEPT !.tokens = <<>>, !.balances = EmptyMap],
     [BalancerArgs EXCEPT !.tokens = <<DAI>>, !.balances = DAI :> 2]}

\* the adapter file the latest construction installed, if any did
InstalledAdapter == IF "installed" \in DOMAIN last THEN last.installed ELSE None
\* the adapter file of the pool constructed latest, if any was
ConstructedAdapter == IF "constructed" \in DOMAIN last THEN last.constructed ELSE None

\* a call of VMPoolState::new while other pools exist
NewPool(args, source) ==
    /\ Cardinality(pools) < MaxStates
    /\ LET r == VMPoolState_new(accounts, args, source)
       IN  /\ accounts' = r.accounts
           /\ pools' = IF r.result.ok THEN pools \cup {r.result.v} ELSE pools
           /\ last' = [op |-> "new", args |-> args, source |-> source, before |-> accounts,
                       result |-> r.result, probed |-> r.probed, engine |-> r.engine,
                       installed |-> IF get_contract_bytecode(args.adapter_contract_path).ok
                                     THEN Some(args.adapter_contract_path)
                                     ELSE InstalledAdapter,
                       constructed |-> IF r.result.ok THEN Some(args.adapter_contract_path)
                                       ELSE ConstructedAdapter]
    /\ UNCHANGED <<dbBlock, history, dbLock>>

\* a quote of a pool built earlier; the state it returns is dropped
QuoteBuilt(self, sell_token, sell_amount, buy_token) ==
    /\ self \in pools
    /\ LET r == get_amount_out(self, accounts, sell_token, sell_amount, buy_token)
       IN  last' = QuoteRecord(self, sell_token, sell_amount, buy_token, r)
                     @@ [installed |-> InstalledAdapter, constructed |-> ConstructedAdapter]
    /\ UNCHANGED <<accounts, dbBlock, pools, history, dbLock>>

NextNew ==
    \/ \E args \in ConstructionInputs, source \in {"up", "down"} : NewPool(args, source)
    \/ \E self \in pools :
         \E sell_token \in TokensOf(self) :
            \E buy_token \in TokensOf(self) \ {sell_token} :
               QuoteBuilt(self, sell_token, MaxAmount, buy_token)

SpecNew == Init /\ [][NextNew]_vars

(***************************************************************************)
(* The balance-owner machine: one pool, built with or without a balance    *)
(* owner and with an id that is or is not an address, priced and quoted    *)
(***************************************************************************)
OwnerInputs ==
    {BalancerArgs,
     [BalancerArgs EXCEPT !.balance_owner = None],
     [BalancerArgs EXCEPT !.balance_owner = None,
                          !.adapter_contract_path = "NonUniform.evm.runtime"],
     [BalancerArgs EXCEPT !.id = POOL_ID_20, !.balance_owner = None],
     [BalancerArgs EXCEPT !.id = POOL_ID_20, !.balance_owner = None,
                          !.adapter_contract_path = "Independent.evm.runtime"],
     [BalancerArgs EXCEPT !.adapter_contract_path = "Independent.evm.runtime"]}

\* the token lists spot prices are asked for, the short ones included
OwnerTokenLists == TokenLists \cup {<<>>, <<ERC20Token(DAI)>>}

NextOwner ==
    \/ \E args \in OwnerInputs : New(args)
    \/ \E self \in pools, tokens \in OwnerTokenLists : SetSpotPrices(self, tokens)
    \/ \E self \in pools, sell_amount \in Amounts :
         \E sell_token \in TokensOf(self) :
            \E buy_token \in TokensOf(self) \ {sell_token} :
               QuoteBuilt(self, sell_token, sell_amount, buy_token)

SpecOwner == Init /\ [][NextOwner]_vars

(***************************************************************************)
(* Properties of quoting                                                   *)
(***************************************************************************)
IsQuote == last.op = "get_amount_out"
SellAmountTooHigh == Err(<<"SellAmountTooHigh">>)
\* the (address, slot, value) entries swap reported in its state changes
Reported(state_changes) ==
    Entries([a \in {b \in DOMAIN state_changes : state_changes[b].storage.some} |->
                state_changes[a].storage.v])
\* the (address, slot) keys swap reported in its state changes
ReportedKeys(state_changes) == {<<e[1], e[2]>> : e \in Reported(state_changes)}
\* the two-level map o holds value v at slot s of address a
Holds(o, a, s, v) == a \in DOMAIN o /\ s \in DOMAIN o[a] /\ o[a][s] = v

\* C1: get_amount_out on a pool state P leaves every field of P unchanged and
\* leaves the shared state DB unchanged: after the call every pool state there
\* was is still there as it was, the only state that may be new is the returned
\* new_state, and the accounts and the block of the DB are what they were.
C1_QuoteIsSideEffectFree ==
    [][last'.op = "get_amount_out" =>
          /\ pools \subseteq pools'
          /\ pools' \subseteq
                pools \cup (IF last'.call.result.ok
                            THEN {last'.call.result.v.new_state} ELSE {})
          /\ accounts' = accounts
          /\ dbBlock' = dbBlock]_vars

\* a quote returned a new state that differs from the state it was made on
C1_Witness ==
    /\ IsQuote
    /\ last.call.result.ok
    /\ last.call.result.v.new_state # last.self
    /\ last.self \in pools

\* C2, as stated: the new state's overwrites contain every (address, slot, value)
\* entry of P's, and strictly more entries whenever swap reported a storage slot.
C2_EntriesKept ==
    (IsQuote /\ last.call.result.ok) =>
        LET old == last.self.block_lasting_overwrites
            new == last.call.result.v.new_state.block_lasting_overwrites
        IN  /\ Entries(old) \subseteq Entries(new)
            /\ Reported(last.call.computed.v.state_changes) # {}
                  => Cardinality(Entries(new)) > Cardinality(Entries(old))

\* C2, amended: the new state's overwrites have exactly the (address, slot) keys of
\* P's and of the slots swap reported; a reported slot holds the reported value,
\* any other slot holds P's value; and there are strictly more entries than in
\* P's exactly when swap reported a slot that P's overwrites did not hold.
C2_KeysKeptReportedValuesWin ==
    (IsQuote /\ last.call.result.ok) =>
        LET old == last.self.block_lasting_overwrites
            new == last.call.result.v.new_state.block_lasting_overwrites
            changes == last.call.computed.v.state_changes
        IN  /\ Keys(new) = Keys(old) \cup ReportedKeys(changes)
            /\ Reported(changes) \subseteq Entries(new)
            /\ \A e \in Entries(old) :
                  <<e[1], e[2]>> \notin ReportedKeys(changes) => e \in Entries(new)
            /\ Cardinality(Entries(new)) > Cardinality(Entries(old))
                  <=> ReportedKeys(changes) \ Keys(old) # {}

\* a quote on a state with overwrites whose swap reported a new value for a slot
\* those overwrites hold, and no slot they do not hold
C2_Witness ==
    /\ IsQuote
    /\ last.call.result.ok
    /\ ReportedKeys(last.call.computed.v.state_changes)
          \subseteq Keys(last.self.block_lasting_overwrites)
    /\ \E e \in Reported(last.call.computed.v.state_changes) :
          ~Holds(last.self.block_lasting_overwrites, e[1], e[2], e[3])

\* C3, as stated: with HardLimits and sell_amount > sell_limit, swap is called
\* with sell_limit and the call signals SellAmountTooHigh; otherwise swap is
\* called with sell_amount and SellAmountTooHigh is never signalled.
C3_ClampedCallSignals ==
    IsQuote =>
        IF last.call.swap_call.some
        THEN IF "HardLimits" \in last.self.capabilities
                /\ last.sell_amount > last.call.swap_call.v.sell_limit
             THEN /\ last.call.swap_call.v.amount = last.call.swap_call.v.sell_limit
                  /\ last.call.result = SellAmountTooHigh
             ELSE /\ last.call.swap_call.v.amount = last.sell_amount
                  /\ last.call.result # SellAmountTooHigh
        ELSE last.call.result # SellAmountTooHigh

\* C3, amended: with HardLimits and sell_amount > sell_limit, swap is called with
\* sell_limit, and the call signals SellAmountTooHigh if swap returns a trade and
\* the error of swap if swap fails; otherwise swap is called with sell_amount and
\* SellAmountTooHigh is never signalled.
C3_ClampedCallSignalsIfSwapReturns ==
    IsQuote =>
        IF last.call.swap_call.some
        THEN IF "HardLimits" \in last.self.capabilities
                /\ last.sell_amount > last.call.swap_call.v.sell_limit
             THEN /\ last.call.swap_call.v.amount = last.call.swap_call.v.sell_limit
                  /\ last.call.computed.some => last.call.result = SellAmountTooHigh
                  /\ ~last.call.computed.some =>
                        ~last.call.result.ok /\ last.call.result # SellAmountTooHigh
             ELSE /\ last.call.swap_call.v.amount = last.sell_amount
                  /\ last.call.result # SellAmountTooHigh
        ELSE last.call.result # SellAmountTooHigh

\* a quote above the sell limit of a pool with hard limits whose swap returned
C3_Witness ==
    /\ IsQuote
    /\ last.call.swap_call.some
    /\ "HardLimits" \in last.self.capabilities
    /\ last.sell_amount > last.call.swap_call.v.sell_limit
    /\ last.call.swap_call.v.sell_limit > 0
    /\ last.call.computed.some
    /\ last.call.result = SellAmountTooHigh

\* C4: when get_amount_out signals SellAmountTooHigh, the caller gets, alongside
\* the signal, the partial result: the buy amount and the gas used of the clamped
\* swap and the new state.
C4_PartialResultWithSignal ==
    (IsQuote /\ ~last.call.result.ok /\ last.call.result.err[1] = "SellAmountTooHigh") =>
        /\ Len(last.call.result.err) > 1
        /\ last.call.result.err[2] =
              [amount |-> last.call.computed.v.amount,
               gas |-> last.call.computed.v.gas,
               new_state |-> last.call.computed.v.new_state]

\* C5: after a successful get_amount_out(sell, amount, buy) whose swap reported
\* the price p # 0, the new state's spot price of (sell, buy) is p, that of
\* (buy, sell) is 1/p, and every other pair has the entry it has in P, or none
\* if it has none in P; with p = 0 the new state's spot prices are P's.
C5_SpotPricesUpdated ==
    (IsQuote /\ last.call.result.ok) =>
        LET old == last.self.spot_prices
            new == last.call.result.v.new_state.spot_prices
            p == last.call.computed.v.price
            pair == <<last.sell_token, last.buy_token>>
            back == <<last.buy_token, last.sell_token>>
        IN  IF p # ZeroPrice
            THEN /\ DOMAIN new = (DOMAIN old) \cup {pair, back}
                 /\ new[pair] = p
                 /\ new[back] = <<p[2], p[1]>>
                 /\ \A other \in (DOMAIN old) \ {pair, back} : new[other] = old[other]
            ELSE new = old

\* a quote at a price that is neither zero nor one, on a state that holds the
\* spot price of another pair
C5_Witness ==
    /\ IsQuote
    /\ last.call.result.ok
    /\ last.call.computed.v.price \notin {ZeroPrice, <<1, 1>>}
    /\ (DOMAIN last.self.spot_prices)
          \ {<<last.sell_token, last.buy_token>>, <<last.buy_token, last.sell_token>>} # {}


\* the token overwrites of the quote in `last`: the pool balances at the balance
\* owner and the sell token's balance and allowance of the external account
QuoteTokenOverwrites ==
    get_token_overwrites(last.self, <<last.sell_token, last.buy_token>>,
                         last.call.swap_call.v.sell_limit).v

\* C6, as stated: when get_amount_out is called on the new state an earlier
\* get_amount_out returned, the overrides passed to its swap hold, for every
\* storage slot the first swap wrote, the value the first swap wrote; and the
\* quote commits nothing to the DB.
C6_SecondSwapSeesFirstWrites ==
    /\ [](IsQuote /\ last.follows.some /\ last.call.swap_call.some =>
             \A e \in Reported(last.follows.v) :
                Holds(last.call.swap_call.v.overwrites, e[1], e[2], e[3]))
    /\ [][last'.op = "get_amount_out" => accounts' = accounts]_vars

\* C6, amended: the overrides passed to the second swap hold the value of the
\* second call's token overwrites at every slot these set, and the value the
\* first swap wrote at every other slot the first swap wrote; and the quote
\* commits nothing to the DB.
C6_SecondSwapSeesFirstWritesUnderTokenOverwrites ==
    /\ [](IsQuote /\ last.follows.some /\ last.call.swap_call.some =>
             /\ \A e \in Entries(QuoteTokenOverwrites) :
                   Holds(last.call.swap_call.v.overwrites, e[1], e[2], e[3])
             /\ \A e \in Reported(last.follows.v) :
                   <<e[1], e[2]>> \notin Keys(QuoteTokenOverwrites)
                      => Holds(last.call.swap_call.v.overwrites, e[1], e[2], e[3]))
    /\ [][last'.op = "get_amount_out" => accounts' = accounts]_vars

\* a quote on the new state of the quote before it, whose swap wrote a slot the
\* token overwrites do not set and a slot they set to another value
C6_Witness ==
    /\ IsQuote
    /\ last.follows.some
    /\ last.call.swap_call.some
    /\ \E e \in Reported(last.follows.v) : <<e[1], e[2]>> \notin Keys(QuoteTokenOverwrites)
    /\ \E e \in Reported(last.follows.v) :
          /\ <<e[1], e[2]>> \in Keys(QuoteTokenOverwrites)
          /\ ~Holds(QuoteTokenOverwrites, e[1], e[2], e[3])

C8_CapabilitiesAreIntersection ==
    (last.op = "new" /\ last.result.ok) =>
        LET self == last.result.v
        IN  self.capabilities =
               {c \in Capability :
                   \A i \in DOMAIN self.tokens, j \in DOMAIN self.tokens :
                      i # j => c \in get_capabilities(accounts, StripPrefix(self.id),
                                                      self.tokens[i], self.tokens[j]).v}

\* a pool of three tokens was constructed whose adapter reports, for its first
\* pair, capabilities it does not report for every pair
C8_Witness ==
    /\ last.op = "new"
    /\ last.result.ok
    /\ Len(last.result.v.tokens) = 3
    /\ last.result.v.capabilities # {}
    /\ last.result.v.capabilities #
          get_capabilities(accounts, StripPrefix(last.result.v.id),
                           last.result.v.tokens[1], last.result.v.tokens[2]).v

\* C9: ensure_capability(c) succeeds exactly when c is in the capabilities of the
\* pool, fails with a NotFound error otherwise, and leaves the pool states and
\* the DB unchanged.
C9_EnsureCapability ==
    /\ [](last.op = "ensure_capability" =>
             /\ last.result.ok <=> last.capability \in last.self.capabilities
             /\ ~last.result.ok => last.result.err[1] = "NotFound")
    /\ [][last'.op = "ensure_capability" =>
             pools' = pools /\ accounts' = accounts /\ dbBlock' = dbBlock]_vars

\* a capability the pool lacks was asked of a pool that has capabilities
C9_Witness ==
    /\ last.op = "ensure_capability"
    /\ ~last.result.ok
    /\ last.self.capabilities # {}
    /\ last.self \in pools

(***************************************************************************)
(* Properties of the TychoDB reads                                         *)
(***************************************************************************)
\* C10: storage(addr, slot) returns the stored word whenever the DB holds the
\* slot for addr, a stored zero as Ok(0); when it holds none it returns
\* MissingMockedSlot if addr is a mocked account and MissingSlot if addr is not
\* mocked or was never initialised; and the read leaves the DB unchanged.
C10_StorageRead ==
    /\ [](last.op = "storage" =>
             LET a == last.address
                 i == last.index
                 known == a \in DOMAIN accounts
                 transient == known /\ i \in DOMAIN accounts[a].storage
                 permanent == /\ known
                              /\ accounts[a].permanent_storage.some
                              /\ i \in DOMAIN accounts[a].permanent_storage.v
             IN  /\ transient => last.result = Ok(accounts[a].storage[i])
                 /\ ~transient /\ permanent
                       => last.result = Ok(accounts[a].permanent_storage.v[i])
                 /\ ~transient /\ ~permanent /\ known /\ accounts[a].mocked
                       => last.result = Err(<<"MissingMockedSlot", a, i>>)
                 /\ ~transient /\ ~permanent /\ ~(known /\ accounts[a].mocked)
                       => last.result = Err(<<"MissingSlot", a, i>>))
    /\ [][last'.op = "storage" => accounts' = accounts /\ dbBlock' = dbBlock]_vars

\* a zero that a block update stored over a non-zero permanent slot of a mocked
\* account was read
C10_Witness ==
    /\ last.op = "storage"
    /\ last.result = Ok(0)
    /\ accounts[last.address].mocked
    /\ accounts[last.address].permanent_storage = Some(0 :> 10)
    /\ last.index \in DOMAIN accounts[last.address].storage

(***************************************************************************)
(* Properties of the TychoDB under block deltas                            *)
(***************************************************************************)
\* C11: a storage read resolves transient storage first and permanent storage
\* second: after any sequence of init_account and update_state calls, a read of
\* a slot of an initialised account returns the value the most recent block
\* delta that named the slot gave it, if a delta named it since the account was
\* last initialised, and otherwise the permanent value given at init_account.
C11_ReadResolvesTransientFirst ==
    last.op = "storage" /\ last.address \in DOMAIN history.permanent =>
        LET written == history.written[last.address]
            given == history.permanent[last.address]
        IN  IF last.index \in DOMAIN written
            THEN last.result = Ok(written[last.index])
            ELSE given.some /\ last.index \in DOMAIN given.v
                    => last.result = Ok(given.v[last.index])

\* a slot was read that init_account gave one value and a later delta another
C11_Witness ==
    /\ last.op = "storage"
    /\ last.address \in DOMAIN history.permanent
    /\ history.permanent[last.address].some
    /\ last.index \in DOMAIN history.permanent[last.address].v
    /\ last.index \in DOMAIN history.written[last.address]
    /\ history.written[last.address][last.index]
          # history.permanent[last.address].v[last.index]
    /\ last.result.ok

\* C12: for every known account and every slot, after update_state(delta) the
\* value a storage read observes is the delta's value for the slot when the
\* delta contains the slot, and is what was observed before the delta
\* otherwise; accounts the delta does not name are unchanged.
C12_DeltaSlotsObserved ==
    [][last'.op = "update_state" =>
          LET updates == last'.new_state.account_updates
              in_delta(a, i) == /\ a \in DOMAIN updates
                                /\ updates[a].slots.some
                                /\ i \in DOMAIN updates[a].slots.v
          IN  /\ \A a \in DOMAIN accounts, i \in DbSlots :
                    storage(accounts', a, i) =
                        IF in_delta(a, i) THEN Ok(updates[a].slots.v[i])
                        ELSE storage(accounts, a, i)
              /\ \A a \in DOMAIN accounts \ DOMAIN updates :
                    a \in DOMAIN accounts' /\ accounts'[a] = accounts[a]]_vars

\* a delta gave a slot of an initialised account a value other than its
\* permanent one, which is now observed, while another known account was not
\* named by the delta
C12_Witness ==
    /\ last.op = "update_state"
    /\ \E a \in DOMAIN last.new_state.account_updates :
          LET update == last.new_state.account_updates[a]
          IN  /\ a \in DOMAIN history.permanent
              /\ history.permanent[a].some
              /\ update.slots.some
              /\ \E i \in DOMAIN update.slots.v \cap DOMAIN history.permanent[a].v :
                    /\ update.slots.v[i] # history.permanent[a].v[i]
                    /\ storage(accounts, a, i) = Ok(update.slots.v[i])
    /\ DOMAIN accounts \ DOMAIN last.new_state.account_updates # {}

\* C13: block numbers are monotone: a block delta whose block number is not
\* greater than the number of the installed block is rejected and leaves the
\* block header and the account storage unchanged, so that across the deltas
\* applied the current block number never decreases.
C13_BlockNumbersMonotone ==
    [][/\ last'.op = "update_state" /\ dbBlock.some
             /\ last'.new_state.block.number <= dbBlock.v.number
          => dbBlock' = dbBlock /\ accounts' = accounts
       /\ dbBlock.some /\ dbBlock'.some
          => dbBlock'.v.number >= dbBlock.v.number]_vars

C16_OrderIndependent ==
    [][last'.op = "update_state" =>
          LET updates == last'.new_state.account_updates
          IN  /\ \A order \in IterationOrders(DOMAIN updates) :
                    accounts' = update_accounts(accounts, updates, order)
              /\ dbBlock' = Some(last'.new_state.block)]_vars

\* a delta that gives two accounts different slots and balances was applied,
\* the account with the greater address first, and each account holds what the
\* delta gave it
C16_Witness ==
    /\ last.op = "update_state"
    /\ last.order = <<ACCOUNT_A, ACCOUNT_B>>
    /\ last.new_state.account_updates[ACCOUNT_A] # last.new_state.account_updates[ACCOUNT_B]
    /\ \A a \in DbAddresses :
          \A i \in DOMAIN last.new_state.account_updates[a].slots.v :
             storage(accounts, a, i) = Ok(last.new_state.account_updates[a].slots.v[i])

\* C17: within one update_state(delta) the account updates are applied one
\* after another in ascending order of account address.
C17_AscendingAddressOrder ==
    last.op = "update_state" =>
        \A i \in DOMAIN last.order, j \in DOMAIN last.order :
            i < j => AddressLess(last.order[i], last.order[j])

\* C18: permanent storage is never written by block deltas: after any sequence
\* of init_account and update_state calls, the permanent storage every
\* initialised account holds is, slot by slot, the one given at its last
\* init_account.
C18_PermanentStorageKept ==
    \A a \in DOMAIN history.permanent :
        /\ a \in DOMAIN accounts
        /\ accounts[a].permanent_storage = history.permanent[a]

\* a delta wrote another value to a slot that an account holds in its permanent
\* storage
C18_Witness ==
    /\ last.op = "update_state"
    /\ \E a \in DOMAIN last.new_state.account_updates \cap DOMAIN history.permanent :
          /\ history.permanent[a] = Some(0 :> 10)
          /\ last.new_state.account_updates[a].slots = Some(0 :> 0)
          /\ accounts[a].storage[0] = 0
          /\ accounts[a].permanent_storage.v[0] = 10

\* C19: an account update with change kind Deletion destroys the account:
\* afterwards, and until an init_account or a Creation update names the address
\* again, basic(addr) returns MissingAccount.
C19_DeletionDestroysAccount ==
    last.op = "basic" /\ last.address \in history.deleted =>
        last.result = Err(<<"MissingAccount", last.address>>)

\* C20: basic(addr) returns exactly the account info the account storage holds
\* for addr whenever addr is known to it, as every initialised address is,
\* mocked or not; it returns the error MissingAccount(addr), never an empty
\* success, when addr is unknown; and the read leaves the DB unchanged.
C20_BasicRead ==
    /\ [](last.op = "basic" =>
             /\ last.address \in DOMAIN history.permanent
                   => last.address \in DOMAIN accounts
             /\ last.address \in DOMAIN accounts
                   => last.result = Ok(Some(accounts[last.address].info))
             /\ last.address \notin DOMAIN accounts
                   => last.result = Err(<<"MissingAccount", last.address>>)
             /\ last.result # Ok(None))
    /\ [][last'.op = "basic" => accounts' = accounts /\ dbBlock' = dbBlock]_vars

\* the info of a mocked account was read after a delta had changed its balance
C20_Witness ==
    /\ last.op = "basic"
    /\ last.address \in DOMAIN history.permanent
    /\ accounts[last.address].mocked
    /\ last.result.ok
    /\ last.result.v.v.balance = 500

(***************************************************************************)
(* Properties of the VM pool under block deltas                            *)
(***************************************************************************)
\* C15: on a new block delta touching a VM pool, delta_transition installs the
\* new block header in the pool, applies the delta's balance changes and empties
\* block_lasting_overwrites, so that no overwrite a swap produced in block n is
\* among the overwrites of a simulation in block n+1. (The claim adds that the
\* spot prices are recomputed unless manual_updates is set; what is stated here
\* is the part of it that does not depend on the prices.)
C15_DeltaTransitionStartsNewBlock ==
    last.op = "delta_transition" =>
        /\ last.result.ok
        /\ \E p \in pools :
              /\ p.id = last.self.id
              /\ p.block = last.delta.block
              /\ \A t \in DOMAIN last.delta.balances :
                    p.balances[t] = last.delta.balances[t]
              /\ p.block_lasting_overwrites = EmptyMap


(***************************************************************************)
(* Properties of the pool's asynchronous operations                        *)
(***************************************************************************)
\* the operation just made is one of new, set_spot_prices and get_amount_out and
\* it returned an error
OperationFailed(record) ==
    \/ record.op \in {"new", "set_spot_prices"} /\ ~record.result.ok
    \/ record.op = "get_amount_out" /\ ~record.call.result.ok

\* C21: a failing new, set_spot_prices or get_amount_out leaves no effect: the
\* accounts of the shared state DB and every pool state (its spot_prices and
\* block_lasting_overwrites with it) are exactly as before the operation started
C21_FailureLeavesNoEffect ==
    [][OperationFailed(last') => accounts' = accounts /\ pools' = pools]_vars

\* C22: block_lasting_overwrites is per pool state: a get_amount_out leaves every
\* pool state there was, the one quoted included, as it was, whatever entries
\* the new state it returns holds
C22_OverwritesNotShared ==
    [][last'.op = "get_amount_out" => \A other \in pools : other \in pools']_vars

\* a quote returned a new state whose block_lasting_overwrites differ from those of
\* the state quoted, and both states are kept
C22_Witness ==
    /\ last.op = "get_amount_out"
    /\ last.call.result.ok
    /\ last.self \in pools
    /\ last.call.result.v.new_state \in pools
    /\ last.call.result.v.new_state.block_lasting_overwrites
          # last.self.block_lasting_overwrites

C24_FromU256ExactlyOneToNine ==
    last.op = "from_u256" =>
        /\ last.result.ok <=> last.value \in 1..9
        /\ last.result.ok => last.result.v = CapabilityValues[last.value]

(***************************************************************************)
(* Properties of set_spot_prices                                           *)
(***************************************************************************)
\* C25: set_spot_prices requires PriceFunction: on a pool without it the call
\* returns an error before any adapter call is made and spot_prices is unchanged
C25_SetSpotPricesRequiresPriceFunction ==
    (last.op = "set_spot_prices" /\ "PriceFunction" \notin last.self.capabilities) =>
        /\ ~last.result.ok
        /\ last.calls = <<>>
        /\ last.left.spot_prices = last.self.spot_prices

\* set_spot_prices was called on a pool state without PriceFunction
C25_Witness ==
    /\ last.op = "set_spot_prices"
    /\ "PriceFunction" \notin last.self.capabilities

\* the product of the prices p and q is 1 within a multiplicative tolerance of
\* 1e-9: |p*q - 1| <= 1e-9, on the exact fractions
ReciprocalWithinTolerance(p, q) ==
    LET n == p[1] * q[1]
        d == p[2] * q[2]
    IN  (IF n > d THEN n - d ELSE d - n) <= d \div 1000000000

\* in the pool state `state` the prices of every pair that has both directions are
\* reciprocal, unless the pool has ScaledPrice
PricesReciprocal(state) ==
    "ScaledPrice" \notin state.capabilities =>
        \A pair \in DOMAIN state.spot_prices :
            <<pair[2], pair[1]>> \in DOMAIN state.spot_prices =>
                ReciprocalWithinTolerance(state.spot_prices[pair],
                                          state.spot_prices[<<pair[2], pair[1]>>])

\* C26 as written: in every pool state reachable by new, set_spot_prices and
\* get_amount_out, for every token pair with both directions defined and no
\* ScaledPrice, the two spot prices multiply to 1 within 1e-9
C26_PricesReciprocal == \A state \in pools : PricesReciprocal(state)

\* C26: the same in every reachable pool state that holds no price stored by
\* set_spot_prices
C26_PricesReciprocalUnlessSet == \A state \in pools \ history.priced : PricesReciprocal(state)

\* a quote on a pool state priced by set_spot_prices returned a state that holds
\* both directions of the pair and none of the prices set_spot_prices stored
C26_Witness ==
    /\ last.op = "get_amount_out"
    /\ last.call.result.ok
    /\ last.self \in history.priced
    /\ last.call.result.v.new_state \in pools \ history.priced
    /\ <<last.sell_token, last.buy_token>>
          \in DOMAIN last.call.result.v.new_state.spot_prices
    /\ <<last.buy_token, last.sell_token>>
          \in DOMAIN last.call.result.v.new_state.spot_prices

(***************************************************************************)
(* Properties of the accounts the DB holds                                 *)
(***************************************************************************)
\* C27: every account the state DB holds has the Keccak-256 hash of its code as
\* code_hash when it has code, and the hash of the empty code when it has none,
\* after every init_account and every update_state
C27_CodeHashMatchesCode ==
    \A address \in DOMAIN accounts :
        LET info == accounts[address].info
        IN  info.code_hash = IF info.code.some THEN keccak256(info.code.v.bytes)
                             ELSE KECCAK_EMPTY

(***************************************************************************)
(* Properties of the overwrites a quote is made under                      *)
(***************************************************************************)
\* merged holds, per address, the union of the slots of target and source, with
\* source's value at every slot source holds and target's at every other
MergedAs(merged, target, source) ==
    /\ DOMAIN merged = (DOMAIN target) \cup (DOMAIN source)
    /\ Keys(merged) = Keys(target) \cup Keys(source)
    /\ \A e \in Entries(source) : Holds(merged, e[1], e[2], e[3])
    /\ \A e \in Entries(target) :
          <<e[1], e[2]>> \notin Keys(source) => Holds(merged, e[1], e[2], e[3])

\* the token overwrites of the first override pass of the quote in `last`
FirstPassTokenOverwrites ==
    get_token_overwrites(last.self, <<last.sell_token, last.buy_token>>, MaxBalanceFraction).v

\* C28: merge(target, source) is, per address, the union of the slot maps with
\* source's value at every (address, slot) both hold; get_overwrites is
\* merge(block_lasting_overwrites, token overwrites), so the token overwrite is
\* the value used where both hold a slot. Stated on the overrides a quote hands
\* to getLimits (get_overwrites) and to swap (the merge of the two passes).
C28_MergePolicy ==
    (IsQuote /\ last.call.limits_call.some) =>
        /\ MergedAs(last.call.limits_call.v.overwrites,
                    last.self.block_lasting_overwrites, FirstPassTokenOverwrites)
        /\ last.call.swap_call.some =>
              MergedAs(last.call.swap_call.v.overwrites,
                       last.call.limits_call.v.overwrites,
                       get_overwrites(last.self, <<last.sell_token, last.buy_token>>,
                                      last.call.swap_call.v.sell_limit).v)

\* a quote on a state whose block_lasting_overwrites hold a slot the token
\* overwrites set to another value, and a slot they do not set; the token
\* overwrites set a slot the block_lasting_overwrites do not hold
C28_Witness ==
    /\ IsQuote
    /\ last.call.swap_call.some
    /\ \E e \in Entries(last.self.block_lasting_overwrites) :
          /\ <<e[1], e[2]>> \in Keys(FirstPassTokenOverwrites)
          /\ ~Holds(FirstPassTokenOverwrites, e[1], e[2], e[3])
    /\ Keys(last.self.block_lasting_overwrites) \ Keys(FirstPassTokenOverwrites) # {}
    /\ Keys(FirstPassTokenOverwrites) \ Keys(last.self.block_lasting_overwrites) # {}

\* the overrides hold `value` as the sell token's balance of EXTERNAL_ACCOUNT and
\* as its allowance of EXTERNAL_ACCOUNT to ADAPTER_ADDRESS, for the quote in `last`
SellTokenFundedWith(overwrites, value) ==
    LET slots == IF last.sell_token \in DOMAIN last.self.token_storage_slots
                 THEN last.self.token_storage_slots[last.sell_token]
                 ELSE DefaultSlots
    IN  /\ Holds(overwrites, last.sell_token, BalanceSlot(EXTERNAL_ACCOUNT, slots[1]), value)
        /\ Holds(overwrites, last.sell_token,
                 AllowanceSlot(EXTERNAL_ACCOUNT, ADAPTER_ADDRESS, slots[2]), value)

\* C29: the overrides get_amount_out passes to swap hold sell_limit, the value of
\* the second override pass, as the sell token's balance of EXTERNAL_ACCOUNT and
\* as its allowance to ADAPTER_ADDRESS; those passed to getLimits hold
\* MAX_BALANCE / 100 there
C29_SwapFundedWithSellLimit ==
    (IsQuote /\ last.call.limits_call.some) =>
        /\ SellTokenFundedWith(last.call.limits_call.v.overwrites, MaxBalanceFraction)
        /\ last.call.swap_call.some =>
              SellTokenFundedWith(last.call.swap_call.v.overwrites,
                                  last.call.swap_call.v.sell_limit)

\* a quote reached swap with a sell limit other than MAX_BALANCE / 100
C29_Witness ==
    /\ IsQuote
    /\ last.call.swap_call.some
    /\ last.call.swap_call.v.sell_limit # MaxBalanceFraction

\* overwrites holds the balance the pool state self records for token, zero if
\* it records none, as the token's balance of the pool's balance owner
PoolBalanceWritten(self, overwrites, token) ==
    LET owner == IF self.balance_owner.some THEN self.balance_owner.v
                 ELSE ParseAddress(self.id).v
        slot == IF token \in self.involved_contracts
                THEN self.token_storage_slots[token][1] ELSE SLOT_0
    IN  Holds(overwrites, token, BalanceSlot(owner, slot),
              IF token \in DOMAIN self.balances THEN self.balances[token] ELSE 0)

\* token_overwrites are the sell token's balance of EXTERNAL_ACCOUNT and its
\* allowance to ADAPTER_ADDRESS and nothing else
OnlySellTokenFunded(self, token_overwrites, sell_token) ==
    LET slots == IF sell_token \in DOMAIN self.token_storage_slots
                 THEN self.token_storage_slots[sell_token] ELSE DefaultSlots
    IN  Keys(token_overwrites) =
            {<<sell_token, BalanceSlot(EXTERNAL_ACCOUNT, slots[1])>>,
             <<sell_token, AllowanceSlot(EXTERNAL_ACCOUNT, ADAPTER_ADDRESS, slots[2])>>}

ResolvableCallKeys ==
    IF last.op = "new" /\ last.source = "up" /\ last.installed = Some(last.args.adapter_contract_path)
    THEN {key \in DOMAIN last.args.stateless_contracts :
            /\ ~last.args.stateless_contracts[key].some
            /\ starts_with_call(key)
            /\ get_address_from_call(last.args, last.before, key).ok}
    ELSE {}

\* C31: after a construction whose stateless contracts hold an entry without
\* bytecode under a key beginning with call:, the call named by the key being
\* answered and the code source being up, the DB holds at the address the call
\* returned the code the source gives for that address.
C31_CallKeyInstalledAtReturnedAddress ==
    \A key \in ResolvableCallKeys :
        LET returned == get_address_from_call(last.args, last.before, key).v
            info == get_account_info(accounts, returned)
        IN  /\ info.some
            /\ info.v.code
                 = Some(to_analysed(get_code_for_contract("up", Str(<<returned>>)).v))

\* the account at `address` of the DB `accs` holds code
HoldsCode(accs, address) ==
    get_account_info(accs, address).some /\ get_account_info(accs, address).v.code.some

\* C32: when VMPoolState::new asks for the capabilities, the DB it asks holds
\* the null-address account, the precompile account at address 4, the adapter's
\* code at ADAPTER_ADDRESS and the code of every stateless contract; when
\* set_engine fails, the capabilities are never asked for and new returns no
\* pool state.
C32_InstalledBeforeProbing ==
    (last.op = "new" /\ "probed" \in DOMAIN last) =>
        /\ last.probed.some =>
              /\ get_account_info(last.probed.v, NULL_ADDRESS) = Some(EmptyAccountInfo)
              /\ get_account_info(last.probed.v, PRECOMPILE_4) = Some(EmptyAccountInfo)
              /\ adapter_code(last.probed.v)
                   = Some(AdapterFiles[last.args.adapter_contract_path])
              /\ \A key \in DOMAIN last.args.stateless_contracts :
                    /\ parse_address(key).ok
                    /\ HoldsCode(last.probed.v, parse_address(key).v)
        /\ ~last.engine.ok => ~last.probed.some /\ ~last.result.ok

\* a construction with a stateless contract that reached the capabilities
C32_Witness ==
    /\ last.op = "new" /\ "probed" \in DOMAIN last
    /\ last.probed.some
    /\ last.args.stateless_contracts # EmptyMap
    /\ last.result.ok

\* a construction that failed on a stateless contract after the adapter was read
C32_WitnessFailure ==
    /\ last.op = "new" /\ "probed" \in DOMAIN last
    /\ ~last.engine.ok
    /\ last.installed = Some(last.args.adapter_contract_path)


(***************************************************************************)
(* Properties of GetAmountOutResult                                        *)
(***************************************************************************)
RECURSIVE SumGas(_)
SumGas(results) == IF results = <<>> THEN 0 ELSE Head(results).gas + SumGas(Tail(results))

\* C33: after r1..rn have been aggregated into r0 in order, the amount is rn's
\* amount and the gas is the sum of the gas of r0..rn.
C33_AggregateFoldsHops ==
    (last.op = "aggregate" /\ last.acc.ok /\ last.others # <<>>) =>
        /\ last.acc.v.amount = last.others[Len(last.others)].amount
        /\ last.acc.v.gas = last.first.gas + SumGas(last.others)

\* two hops folded, each with an amount and gas of its own
C33_Witness ==
    /\ last.op = "aggregate" /\ last.acc.ok
    /\ Len(last.others) = 2
    /\ last.first.amount # 0 /\ last.first.gas # 0
    /\ last.others[1].amount # 0 /\ last.others[1].gas # 0
    /\ last.others[2].amount = 0 /\ last.others[2].gas # 0


(***************************************************************************)
(* Properties of the amounts handed to swap                                *)
(***************************************************************************)
\* C34: the amount get_amount_out asks swap to sell does not exceed the sell
\* token balance and allowance of EXTERNAL_ACCOUNT in the overrides of that
\* swap call, whatever the sell amount and the pool's capabilities.
C34_SwapAmountCovered ==
    (IsQuote /\ last.call.swap_call.some) =>
        \E value \in last.call.swap_call.v.amount..U256_MAX :
            SellTokenFundedWith(last.call.swap_call.v.overwrites, value)


(***************************************************************************)
(* Properties of the balance owner                                         *)
(***************************************************************************)
\* the pool has no balance owner, its id is no address and its capabilities
\* lack TokenBalanceIndependent
OwnerUnresolved(self) ==
    /\ ~self.balance_owner.some
    /\ ~ParseAddress(self.id).ok
    /\ "TokenBalanceIndependent" \notin self.capabilities

PoolIdIsNoAddress == Err(<<"EncodingError", "Pool ID is not an address">>)

\* get_overwrites of every pool without a resolvable owner fails with the
\* encoding error, whatever the pair and the amount
OverwritesNeedOwner ==
    \A self \in pools :
        OwnerUnresolved(self) =>
            \A pair \in TokenPairs, max_amount \in {0, MaxAmount, MaxBalanceFraction} :
                get_overwrites(self, <<pair[1], pair[2]>>, max_amount) = PoolIdIsNoAddress

\* a get_amount_out of a pool without a resolvable owner fails with the encoding
\* error, having called nothing and leaving the pool as it was
QuoteNeedsOwner ==
    (IsQuote /\ OwnerUnresolved(last.self)) =>
        /\ last.call.result = PoolIdIsNoAddress
        /\ ~last.call.limits_call.some /\ ~last.call.swap_call.some
        /\ pools = {last.self}

\* a balance owner that resolves: it is balance_owner when set and otherwise
\* the pool id parsed as an address
OwnerResolved ==
    \A self \in pools :
        ("TokenBalanceIndependent" \notin self.capabilities /\ ~OwnerUnresolved(self)) =>
            \A pair \in TokenPairs :
                LET o == get_overwrites(self, <<pair[1], pair[2]>>, MaxAmount)
                    owner == IF self.balance_owner.some THEN self.balance_owner.v
                             ELSE self.id[2]
                IN  /\ o.ok
                    /\ \A t \in {pair[1], pair[2]} :
                          BalanceSlot(owner, SLOT_0) \in DOMAIN o.v[t]

\* C35 as stated: the holder of the pool balances is balance_owner when set and
\* otherwise the pool id parsed as an address; without a resolvable owner every
\* get_overwrites, set_spot_prices and get_amount_out of a pool lacking
\* TokenBalanceIndependent fails with the encoding error before any adapter call
\* and leaves the pool as it was.
C35_EveryOperationNeedsOwner ==
    /\ OwnerResolved
    /\ OverwritesNeedOwner
    /\ QuoteNeedsOwner
    /\ (last.op = "set_spot_prices" /\ OwnerUnresolved(last.self)) =>
          /\ last.result = PoolIdIsNoAddress
          /\ last.calls = <<>>
          /\ last.left = last.self /\ pools = {last.self}

\* C35 amended: as C35, where set_spot_prices fails with the encoding error if
\* the pool holds PriceFunction and two tokens or more are given; without
\* PriceFunction it fails on the missing capability, and for fewer than two
\* tokens it returns Ok, in both cases without an adapter call and leaving the
\* pool as it was.
C35_OperationsReachingOverwritesNeedOwner ==
    /\ OwnerResolved
    /\ OverwritesNeedOwner
    /\ QuoteNeedsOwner
    /\ (last.op = "set_spot_prices" /\ OwnerUnresolved(last.self)) =>
          /\ last.result =
                IF "PriceFunction" \notin last.self.capabilities
                THEN ensure_capability(last.self, "PriceFunction")
                ELSE IF Len(last.tokens) < 2 THEN Ok(<<>>)
                ELSE PoolIdIsNoAddress
          /\ last.calls = <<>>
          /\ last.left = last.self /\ pools = {last.self}

\* spot prices of two tokens asked of a pool with PriceFunction and without a
\* resolvable owner
C35_Witness ==
    /\ last.op = "set_spot_prices" /\ OwnerUnresolved(last.self)
    /\ "PriceFunction" \in last.self.capabilities
    /\ Len(last.tokens) = 2
    /\ last.result = PoolIdIsNoAddress


(***************************************************************************)
(* Properties of the adapter shared by the pools                           *)
(***************************************************************************)
\* the code at ADAPTER_ADDRESS is that of the adapter file `path`, if any
AdapterCodeIs(path) ==
    path.some =>
        /\ adapter_code(accounts) = Some(AdapterFiles[path.v])
        /\ get_account_info(accounts, ADAPTER_ADDRESS).v.code_hash
             = keccak256(AdapterFiles[path.v])

\* every pool there is simulates through ADAPTER_ADDRESS of the one DB: it
\* holds no code of its own, and its quote is the quote against `accounts`
QuotesUseSharedCode ==
    /\ \A self \in pools : self.adapter_contract /\ self.engine
    /\ IsQuote =>
          last.call = get_amount_out(last.self, accounts, last.sell_token,
                                     last.sell_amount, last.buy_token)

Comparands ==
    {AsProtocolSim(p) : p \in pools}
        \cup {AsProtocolSim([p EXCEPT !.id = POOL_ID_20]) : p \in pools}
        \cup {AsProtocolSim([p EXCEPT !.id = POOL_ID_32]) : p \in pools}
        \cup {UniswapV3State(p.id) : p \in pools}

\* C37: eq(a, b) is true exactly when b is a VM pool state with the id of a;
\* the state a get_amount_out returns is equal to the state it was asked of,
\* whatever their spot prices and block-lasting overwrites.
C37_EqualityByIdOnly ==
    /\ \A a \in pools, b \in Comparands :
          eq(a, b) <=> (b.type = "VMPoolState" /\ b.v.id = a.id)
    /\ (IsQuote /\ last.call.result.ok) =>
          /\ eq(last.self, AsProtocolSim(last.call.result.v.new_state))
          /\ eq(last.call.result.v.new_state, AsProtocolSim(last.self))

\* a quote returned a state whose spot prices and block-lasting overwrites are
\* not those of the state asked
C37_Witness ==
    /\ IsQuote /\ last.call.result.ok
    /\ last.call.result.v.new_state.spot_prices # last.self.spot_prices
    /\ last.call.result.v.new_state.block_lasting_overwrites
         # last.self.block_lasting_overwrites
    /\ eq(last.self, AsProtocolSim(last.call.result.v.new_state))


(***************************************************************************)
(* Properties of the capabilities of a pool without a pair of tokens       *)
(***************************************************************************)
\* C38: a VMPoolState::new for a token list of fewer than two entries returns
\* no pool state, and once the engine is set up it ends in the abort of
\* set_capabilities on the empty list of replies, not in a typed error; no pool
\* there is has fewer than two tokens.
C38_NoPairAborts ==
    /\ \A self \in pools : Len(self.tokens) >= 2
    /\ (last.op = "new" /\ "probed" \in DOMAIN last /\ Len(last.args.tokens) < 2) =>
          /\ ~last.result.ok
          /\ last.probed.some => last.result = Panic("index out of bounds")

\* a construction for a single token whose engine was set up
C38_Witness ==
    /\ last.op = "new" /\ "probed" \in DOMAIN last
    /\ Len(last.args.tokens) = 1
    /\ last.probed.some
    /\ IsPanic(last.result)


(***************************************************************************)
(* Properties of the quickstart loop                                       *)
(***************************************************************************)
\* C39: after any sequence of block updates every pool id in amounts_out is a
\* key of pairs, pairs holds every entry it held before the update, and the
\* pool id get_best_swap returns is found by the lookup of encode.
C39_BestPoolIsKnown ==
    last.op = "block_update" =>
        /\ DOMAIN last.amounts_out \subseteq DOMAIN last.pairs
        /\ \A id \in DOMAIN last.pairs_before :
              id \in DOMAIN last.pairs /\ last.pairs[id] = last.pairs_before[id]
        /\ (last.best_pool.ok /\ last.best_pool.v.some) =>
              /\ last.best_pool.v.v \in DOMAIN last.pairs
              /\ last.encoded = Ok(last.pairs[last.best_pool.v.v])

\* an update without new pairs whose best pool was recorded by an earlier one
C39_Witness ==
    /\ last.op = "block_update"
    /\ last.new_pairs = {}
    /\ last.best_pool.ok /\ last.best_pool.v.some
    /\ last.best_pool.v.v \notin last.states
    /\ DOMAIN last.amounts_out = PoolIds
    /\ last.encoded.ok

====
